---- MODULE Spec2Model ----
(***************************************************************************)
(* Model of the xepak request-to-query core:                               *)
(*   - sql-key-args: SqlLexer, ParametrizedQueryRef, build_pos_query       *)
(*   - auth: auth registry, CheckAuthConf, SimpleAuthenticationProcessor,  *)
(*     AuthorizeProcessor                                                  *)
(*   - server: EndpointHandler (preprocessors, handle), RequestArgs and    *)
(*     RequestInput (argument lookup)                                      *)
(*   - types, schema: XepakValue conversions, convert_with_schema,         *)
(*     apply_validator                                                     *)
(* Text is modelled as a sequence of one-character strings. Offsets are    *)
(* 0-based as in the source; sequences are 1-based, so the character at    *)
(* offset i is s[i + 1].                                                   *)
(***************************************************************************)
EXTENDS Integers, Sequences, FiniteSets, TLC

VARIABLES
    sql,        \* SqlLexer.sql / ParametrizedQueryRef.query: the template
    sql_index,  \* SqlLexer.sql_index: offset of the next character to read
    offset,     \* SqlLexer.offset: offset of the character read last
    result,     \* what the last next_key_arg call returned
    occs,       \* the Some(..) results returned so far, in call order
    calls,      \* number of next_key_arg calls made on this lexer
    pq,         \* the ParametrizedQueryRef built from sql (args, positions)
    built,      \* what the last build_query call returned, and its token
    registry,   \* SimpleAuthRegistry: api key -> (id, roles)
    checks,     \* the configured check list handed to AuthorizeProcessor::new
    check,      \* AuthorizeProcessor.check
    header,     \* the x-api-key header of the request being handled
    auth,       \* RequestInput's authentication slot: None or (id, roles)
    authn,      \* result of SimpleAuthenticationProcessor::handle
    authz,      \* result of AuthorizeProcessor::handle
    processors, \* EndpointHandler.processors, in the order they are run
    outcomes,   \* what each processor's handle returns for the request
    trace,      \* the steps EndpointHandler::handle has run for the request
    response,   \* the response handle returned
    hpc,        \* where handle is: "idle", "resource" (awaiting it), "done"
    arg,        \* the arguments of the last call of a value operation
    ret,        \* what that call returned
    store,      \* the request's argument maps (path_args and args)
    got         \* the last lookup in the store: the name and the result

lexVars == <<sql, sql_index, offset, result, occs, calls>>
pqVars == <<pq, built>>
authVars == <<registry, checks, check, header, auth, authn, authz>>
handlerVars == <<processors, outcomes, trace, response, hpc>>
callVars == <<arg, ret>>
storeVars == <<store, got>>
otherVars == <<handlerVars, callVars, storeVars>>
vars == <<sql, sql_index, offset, result, occs, calls, pq, built,
          registry, checks, check, header, auth, authn, authz,
          processors, outcomes, trace, response, hpc, arg, ret, store, got>>

None == [some |-> FALSE, panic |-> FALSE, key |-> <<>>, from |-> 0, to |-> 0]

----------------------------------------------------------------------------
(* Bounds *)

MaxParts == 4
MaxCalls == 6
MaxTemplateLen == 4
MaxRanges == 3
MaxPieces == 3

----------------------------------------------------------------------------
(* Characters: one representative of every class the lexer's match on      *)
(* cur_char distinguishes.                                                 *)

AlNum == {"a", "1", "d", "e", "f", "i", "l", "m", "o", "q", "s", "t", "x"}
NamePunct == {"-"}
Chars == {"'", "\"", "\\", "{", "}", "a", "-", " "}

Parts ==
    {<<c>> : c \in Chars} \cup
    {<<"{", "{">>, <<"}", "}">>, <<"{", "{", "a", "}", "}">>}

RECURSIVE Flatten(_)
Flatten(ps) == IF ps = <<>> THEN <<>> ELSE Head(ps) \o Flatten(Tail(ps))

Templates == {Flatten(ps) : ps \in UNION {[1..n -> Parts] : n \in 0..MaxParts}}

Tokens == {<<"?">>, <<"$", "1">>}

----------------------------------------------------------------------------
(* SqlLexer *)

Sql == [k |-> "Sql", c |-> 0, off |-> 0, escape |-> FALSE]
CurlOpen(c, off) == [k |-> "CurlOpen", c |-> c, off |-> off, escape |-> FALSE]
CurlClose(c, off) == [k |-> "CurlClose", c |-> c, off |-> off, escape |-> FALSE]
StringSingle(e) == [k |-> "StringSingle", c |-> 0, off |-> 0, escape |-> e]
StringSingleClosing == [k |-> "StringSingleClosing", c |-> 0, off |-> 0, escape |-> FALSE]
StringDouble(e) == [k |-> "StringDouble", c |-> 0, off |-> 0, escape |-> e]
StringDoubleClosing == [k |-> "StringDoubleClosing", c |-> 0, off |-> 0, escape |-> FALSE]

\* The arms of `match cur_char` that assign state; the arm that returns an
\* occurrence ('}' in CurlClose(1, _)) is in ScanFrom.
OnBackslash(state) ==
    CASE state.k = "StringSingle" -> StringSingle(~state.escape)
      [] state.k = "StringDouble" -> StringDouble(~state.escape)
      [] state.k \in {"Sql", "StringSingleClosing", "StringDoubleClosing"} -> Sql
      [] OTHER -> state

OnSingleQuote(state) ==
    CASE state.k = "Sql" -> StringSingle(FALSE)
      [] state.k = "StringSingle" /\ state.escape -> StringSingle(FALSE)
      [] state.k = "StringSingle" /\ ~state.escape -> StringSingleClosing
      [] state.k = "StringSingleClosing" -> StringSingle(FALSE)
      [] state.k = "StringDoubleClosing" -> Sql
      [] OTHER -> state

OnDoubleQuote(state) ==
    CASE state.k = "Sql" -> StringDouble(FALSE)
      [] state.k = "StringDouble" /\ state.escape -> StringDouble(FALSE)
      [] state.k = "StringDouble" /\ ~state.escape -> StringDoubleClosing
      [] state.k = "StringDoubleClosing" -> StringDouble(FALSE)
      [] state.k = "StringSingleClosing" -> Sql
      [] OTHER -> state

OnCurlOpen(state, self_offset) ==
    CASE state.k \in {"Sql", "StringSingleClosing", "StringDoubleClosing"} ->
            CurlOpen(1, self_offset)
      [] state.k = "CurlOpen" /\ state.c = 1 -> CurlOpen(2, state.off)
      [] state.k = "CurlOpen" /\ state.c > 2 -> Sql
      [] OTHER -> state

OnCurlClose(state) ==
    CASE state.k \in {"StringSingleClosing", "StringDoubleClosing"} -> Sql
      [] state.k = "CurlOpen" /\ state.c # 2 -> Sql
      [] state.k = "CurlOpen" /\ state.c = 2 -> CurlClose(1, state.off)
      [] state.k = "CurlClose" /\ state.c # 1 -> Sql
      [] OTHER -> state

\* `c == 2 && ch.is_ascii_alphanumeric() || ch == '_' || ch == '-'`:
\* && binds tighter than ||.
OnOther(state, ch) ==
    CASE state.k = "CurlOpen" /\
            ((state.c = 2 /\ ch \in AlNum) \/ ch \in NamePunct) -> state
      [] state.k \in {"CurlOpen", "CurlClose", "StringSingleClosing",
                      "StringDoubleClosing"} -> Sql
      [] OTHER -> state

Transition(state, ch, self_offset) ==
    CASE ch = "\\" -> OnBackslash(state)
      [] ch = "'" -> OnSingleQuote(state)
      [] ch = "\"" -> OnDoubleQuote(state)
      [] ch = "{" -> OnCurlOpen(state, self_offset)
      [] ch = "}" -> OnCurlClose(state)
      [] OTHER -> OnOther(state, ch)

\* &self.sql[(from + 2)..=(to - 2)]: the slice from + 2 .. to - 1 panics
\* when it is not a range within the text.
KeySlice(s, from, to) ==
    IF to >= 2 /\ from + 2 <= to - 1 /\ to - 1 <= Len(s)
    THEN [some |-> TRUE, panic |-> FALSE, key |-> SubSeq(s, from + 3, to - 1),
          from |-> from, to |-> to]
    ELSE [some |-> TRUE, panic |-> TRUE, key |-> <<>>, from |-> from, to |-> to]

\* The while loop of next_key_arg from iterator position i in `state`.
\* next_char sets offset to the iterator's position and then advances it.
RECURSIVE ScanFrom(_, _, _)
ScanFrom(s, i, state) ==
    IF i >= Len(s)
    THEN [ret |-> None, sql_index |-> Len(s), offset |-> Len(s)]
    ELSE LET cur_char == s[i + 1] IN
         IF cur_char = "}" /\ state.k = "CurlClose" /\ state.c = 1
         THEN [ret |-> KeySlice(s, state.off, i), sql_index |-> i + 1, offset |-> i]
         ELSE ScanFrom(s, i + 1, Transition(state, cur_char, i))

\* Mutant: every call scans from the start of the text again.
next_key_arg_restart(s, i) == ScanFrom(s, 0, Sql)

next_key_arg(s, i) == ScanFrom(s, i, Sql)

\* SqlLexer::next_key_arg called on the lexer object.
NextKeyArg ==
    /\ calls < MaxCalls
    /\ LET r == next_key_arg(sql, sql_index) IN
        /\ result' = r.ret
        /\ sql_index' = r.sql_index
        /\ offset' = r.offset
        /\ occs' = IF r.ret.some THEN Append(occs, r.ret) ELSE occs
    /\ calls' = calls + 1
    /\ UNCHANGED <<sql, pqVars, authVars, otherVars>>

----------------------------------------------------------------------------
(* ParametrizedQueryRef and build_pos_query *)

\* `for (arg, pos) in SqlLexer::new(&query)`: the iterator is driven until
\* its first None.
RECURSIVE LexAll(_, _)
LexAll(s, i) ==
    LET r == next_key_arg(s, i) IN
    IF r.ret.some THEN <<r.ret>> \o LexAll(s, r.sql_index) ELSE <<>>

NoQuery == [some |-> FALSE, args |-> <<>>, positions |-> <<>>]

\* Mutant: a name that was already collected is not collected again.
RECURSIVE DedupNames(_, _)
DedupNames(names, seen) ==
    IF names = <<>> THEN <<>>
    ELSE IF Head(names) \in seen THEN DedupNames(Tail(names), seen)
    ELSE <<Head(names)>> \o DedupNames(Tail(names), seen \cup {Head(names)})

ParametrizedQueryRef_new_dedup(query) ==
    LET kargs == LexAll(query, 0) IN
    [some |-> TRUE,
     args |-> DedupNames([i \in 1..Len(kargs) |-> kargs[i].key], {}),
     positions |-> [i \in 1..Len(kargs) |-> [from |-> kargs[i].from, to |-> kargs[i].to]]]

ParametrizedQueryRef_new(query) ==
    LET kargs == LexAll(query, 0) IN
    [some |-> TRUE,
     args |-> [i \in 1..Len(kargs) |-> kargs[i].key],
     positions |-> [i \in 1..Len(kargs) |-> [from |-> kargs[i].from, to |-> kargs[i].to]]]

Max(a, b) == IF a >= b THEN a ELSE b

\* The `for rng in ranges` loop of build_pos_query and the text appended
\* after it.
RECURSIVE build_pos_loop(_, _, _, _, _)
build_pos_loop(query, ranges, pos_arg, res, last_index) ==
    IF ranges = <<>>
    THEN IF last_index < Len(query)
         THEN res \o SubSeq(query, last_index + 1, Len(query))
         ELSE res
    ELSE LET start == Head(ranges).from
             end == Head(ranges).to + 1
             before == IF start > last_index
                       THEN res \o SubSeq(query, last_index + 1, start)
                       ELSE res
         IN build_pos_loop(query, Tail(ranges), pos_arg, before \o pos_arg,
                           Max(last_index, end))

\* The slices build_pos_query takes: query[last_index..start] when start is
\* past the cursor, and query[last_index..] at the end. A slice that is out
\* of the text panics.
RECURSIVE build_pos_panics(_, _, _)
build_pos_panics(query, ranges, last_index) ==
    IF ranges = <<>> THEN FALSE
    ELSE LET start == Head(ranges).from
             end == Head(ranges).to + 1
         IN \/ start > last_index /\ start > Len(query)
            \/ build_pos_panics(query, Tail(ranges), Max(last_index, end))

\* Mutant: the cursor is set to the end of the range, also when that moves
\* it back.
RECURSIVE build_pos_loop_no_clamp(_, _, _, _, _)
build_pos_loop_no_clamp(query, ranges, pos_arg, res, last_index) ==
    IF ranges = <<>>
    THEN IF last_index < Len(query)
         THEN res \o SubSeq(query, last_index + 1, Len(query))
         ELSE res
    ELSE LET start == Head(ranges).from
             end == Head(ranges).to + 1
             before == IF start > last_index
                       THEN res \o SubSeq(query, last_index + 1, start)
                       ELSE res
         IN build_pos_loop_no_clamp(query, Tail(ranges), pos_arg,
                                    before \o pos_arg, end)

build_pos_query_no_clamp(query, ranges, pos_arg) ==
    build_pos_loop_no_clamp(query, ranges, pos_arg, <<>>, 0)

\* Mutant: the text after the last range is not appended.
build_pos_query_no_tail(query, ranges, pos_arg) ==
    LET full == build_pos_loop(query, ranges, pos_arg, <<>>, 0)
        last_index == IF ranges = <<>> THEN 0 ELSE ranges[Len(ranges)].to + 1
    IN SubSeq(full, 1, Len(full) - (Len(query) - last_index))

\* Mutant: only the first range is replaced.
build_pos_query_first(query, ranges, pos_arg) ==
    build_pos_loop(query, IF ranges = <<>> THEN <<>> ELSE <<Head(ranges)>>,
                   pos_arg, <<>>, 0)

build_pos_query(query, ranges, pos_arg) ==
    build_pos_loop(query, ranges, pos_arg, <<>>, 0)

has_args(q) == q.args # <<>>

build_query(query, q, pos_arg) ==
    IF has_args(q) THEN build_pos_query(query, q.positions, pos_arg) ELSE query

NotBuilt == [some |-> FALSE, token |-> <<>>, text |-> <<>>]

\* ParametrizedQueryRef::new(sql)
PQNew ==
    /\ ~pq.some
    /\ pq' = ParametrizedQueryRef_new(sql)
    /\ UNCHANGED <<lexVars, built, authVars, otherVars>>

\* ParametrizedQueryRef::build_query(pos_arg)
BuildQuery ==
    /\ pq.some
    /\ \E pos_arg \in Tokens :
         built' = [some |-> TRUE, token |-> pos_arg,
                   text |-> build_query(sql, pq, pos_arg)]
    /\ UNCHANGED <<lexVars, pq, authVars, otherVars>>


\* str::get(from..to): the slice when the range is ordered and inside the
\* text, None otherwise.
str_get(query, from, to) ==
    IF from <= to /\ to <= Len(query)
    THEN [some |-> TRUE, s |-> SubSeq(query, from + 1, to)]
    ELSE [some |-> FALSE, s |-> <<>>]

\* The `for (_, range) in key_args` loop of query_to_pos_args; the result
\* is returned as it is when the loop ends or breaks.
RECURSIVE query_to_pos_loop(_, _, _, _, _)
query_to_pos_loop(query, pos_arg, key_args, res, offset_from) ==
    IF key_args = <<>> THEN res
    ELSE LET subslice == str_get(query, offset_from, Head(key_args).from) IN
         IF ~subslice.some THEN res
         ELSE query_to_pos_loop(query, pos_arg, Tail(key_args),
                                res \o subslice.s \o pos_arg,
                                Head(key_args).to + 1)

query_to_pos_args(query, pos_arg, key_args) ==
    query_to_pos_loop(query, pos_arg, key_args, <<>>, 0)

\* query_to_pos_args(sql, pos_arg, key args of SqlLexer::new(sql))
QueryToPosArgs ==
    /\ \E pos_arg \in Tokens :
         ret' = [op |-> "query_to_pos_args",
                 res |-> [token |-> pos_arg,
                          text |-> query_to_pos_args(sql, pos_arg, LexAll(sql, 0))]]
    /\ UNCHANGED <<lexVars, pqVars, authVars, handlerVars, storeVars, arg>>


\* build_pos_query(sql, ranges, pos_arg) on a list of ranges the caller
\* supplies.
BuildPosQuery ==
    /\ \E pos_arg \in Tokens :
         ret' = [op |-> "build_pos_query",
                 res |-> [token |-> pos_arg,
                          failed |-> build_pos_panics(sql, arg.ranges, 0),
                          text |-> build_pos_query(sql, arg.ranges, pos_arg)]]
    /\ UNCHANGED <<lexVars, pqVars, authVars, handlerVars, storeVars, arg>>

----------------------------------------------------------------------------
(* auth *)

\* String::to_uppercase on the letters used by the role names of the model.
UpperChar(c) ==
    CASE c = "a" -> "A"
      [] c = "b" -> "B"
      [] c = "u" -> "U"
      [] OTHER -> c

to_uppercase(v) == [i \in DOMAIN v |-> UpperChar(v[i])]

\* Process environment read by put_to_registry when from_env is set.
EnvVars == [name \in {"XEPAK_KEY"} |-> "k3"]

\* The configured SimpleAuthSpecs (id, key, from_env, roles).
AuthSpecsConf ==
    << [id |-> <<"u", "1">>, key |-> "k1", from_env |-> FALSE, roles |-> << <<"a">> >>],
       [id |-> <<"u", "2">>, key |-> "k2", from_env |-> FALSE, roles |-> << <<"A">>, <<"b">> >>],
       [id |-> <<"u", "3">>, key |-> "XEPAK_KEY", from_env |-> TRUE, roles |-> <<>>],
       [id |-> <<"U", "1">>, key |-> "k4", from_env |-> FALSE, roles |-> << <<"B">> >>] >>

Range(f) == {f[i] : i \in DOMAIN f}

\* Returns the registry with the spec's entry inserted, or a Cfg error.
put_to_registry(spec, reg) ==
    IF spec.from_env /\ spec.key \notin DOMAIN EnvVars
    THEN [err |-> "Cfg", map |-> reg.map]
    ELSE LET api_key == IF spec.from_env THEN EnvVars[spec.key] ELSE spec.key
             roles == {to_uppercase(v) : v \in Range(spec.roles)}
         IN [err |-> "",
             map |-> [k \in DOMAIN reg.map \cup {api_key} |->
                        IF k = api_key THEN [id |-> spec.id, roles |-> roles]
                        ELSE reg.map[k]]]

RECURSIVE auth_specs_loop(_, _)
auth_specs_loop(specs, reg) ==
    IF specs = <<>> THEN reg
    ELSE LET r == put_to_registry(Head(specs), reg) IN
         IF r.err # "" THEN r ELSE auth_specs_loop(Tail(specs), r)

auth_specs_to_registry(specs) == auth_specs_loop(specs, [err |-> "", map |-> <<>>])

\* CheckAuthConf values
Role(v) == [kind |-> "role", v |-> v, nested |-> <<>>]
Id(v) == [kind |-> "id", v |-> v, nested |-> <<>>]
And(nested) == [kind |-> "and", v |-> <<>>, nested |-> nested]
Or(nested) == [kind |-> "or", v |-> <<>>, nested |-> nested]

RECURSIVE normalize(_)
normalize(c) ==
    CASE c.kind = "role" -> Role(to_uppercase(c.v))
      [] c.kind = "id" -> c
      [] c.kind = "and" -> And([i \in DOMAIN c.nested |-> normalize(c.nested[i])])
      [] c.kind = "or" -> And([i \in DOMAIN c.nested |-> normalize(c.nested[i])])

\* Id{v}: exact comparison with the caller's id (mutant: ignoring case).
id_matches_nocase(c, id) == to_uppercase(id) = to_uppercase(c.v)

id_matches(c, id) == id = c.v

\* is_allowed with its two loops: And starts from check = true and breaks on
\* the first nested node that is not allowed; Or starts from check = false
\* and breaks on the first nested node that is allowed.
RECURSIVE is_allowed(_, _, _)
RECURSIVE is_allowed_and(_, _, _, _)
RECURSIVE is_allowed_or(_, _, _, _)
is_allowed_and(nested, i, id, roles) ==
    IF i > Len(nested) THEN TRUE
    ELSE IF ~is_allowed(nested[i], id, roles) THEN FALSE
    ELSE is_allowed_and(nested, i + 1, id, roles)

is_allowed_or(nested, i, id, roles) ==
    IF i > Len(nested) THEN FALSE
    ELSE IF is_allowed(nested[i], id, roles) THEN TRUE
    ELSE is_allowed_or(nested, i + 1, id, roles)

is_allowed(c, id, roles) ==
    CASE c.kind = "role" -> c.v \in roles
      [] c.kind = "id" -> id_matches(c, id)
      [] c.kind = "and" -> is_allowed_and(c.nested, 1, id, roles)
      [] c.kind = "or" -> is_allowed_or(c.nested, 1, id, roles)

NoCheck == [kind |-> "none", v |-> <<>>, nested |-> <<>>]

AuthorizeProcessor_new(cs) ==
    IF Len(cs) > 1 THEN normalize(Or(cs))
    ELSE IF Len(cs) = 1 THEN cs[1]
    ELSE NoCheck

NoAuth == [some |-> FALSE, id |-> <<>>, roles |-> {}]
NotRun == [status |-> "NotRun", text |-> "", id |-> <<>>, caller |-> NoAuth]
Ok(caller) == [status |-> "Ok", text |-> "", id |-> <<>>, caller |-> caller]
Forbidden(text, id, caller) ==
    [status |-> "Forbidden", text |-> text, id |-> id, caller |-> caller]
InputErr(text, caller) == [status |-> "Input", text |-> text, id |-> <<>>, caller |-> caller]

\* The x-api-key header of a request: absent, not visible ASCII (to_str
\* fails), or a key.
NoHeader == [present |-> FALSE, ascii |-> TRUE, value |-> ""]
Headers ==
    {NoHeader, [present |-> TRUE, ascii |-> FALSE, value |-> "k1"]} \cup
    {[present |-> TRUE, ascii |-> TRUE, value |-> k] : k \in {"k1", "k2", "k3", "k4", "zz"}}

\* SimpleAuthenticationProcessor::handle with a message of its own for a key
\* that is not in the registry (mutant).
authenticate_handle_unknown_key(reg, hdr, input_auth) ==
    IF input_auth.some THEN [res |-> Ok(input_auth), auth |-> input_auth]
    ELSE IF ~hdr.present
    THEN [res |-> Forbidden("Not authenticated", <<>>, input_auth), auth |-> input_auth]
    ELSE IF ~hdr.ascii
    THEN [res |-> InputErr("Wrong x-api-key value", input_auth), auth |-> input_auth]
    ELSE IF hdr.value \notin DOMAIN reg
    THEN [res |-> Forbidden("Unknown key", <<>>, input_auth), auth |-> input_auth]
    ELSE [res |-> Ok(input_auth),
          auth |-> [some |-> TRUE, id |-> reg[hdr.value].id, roles |-> reg[hdr.value].roles]]

\* SimpleAuthenticationProcessor::handle: the result and the auth slot after.
authenticate_handle(reg, hdr, input_auth) ==
    IF input_auth.some THEN [res |-> Ok(input_auth), auth |-> input_auth]
    ELSE IF ~hdr.present
    THEN [res |-> Forbidden("Not authenticated", <<>>, input_auth), auth |-> input_auth]
    ELSE IF ~hdr.ascii
    THEN [res |-> InputErr("Wrong x-api-key value", input_auth), auth |-> input_auth]
    ELSE IF hdr.value \notin DOMAIN reg
    THEN [res |-> Forbidden("Not authenticated", <<>>, input_auth), auth |-> input_auth]
    ELSE [res |-> Ok(input_auth),
          auth |-> [some |-> TRUE, id |-> reg[hdr.value].id, roles |-> reg[hdr.value].roles]]

\* AuthorizeProcessor::handle
authorize_handle(chk, input_auth) ==
    IF ~input_auth.some THEN Forbidden("Not authenticated", <<>>, input_auth)
    ELSE IF chk = NoCheck THEN Ok(input_auth)
    ELSE IF ~is_allowed(chk, input_auth.id, input_auth.roles)
    THEN Forbidden("Not authorized to perform request! Auth id: ", input_auth.id, input_auth)
    ELSE Ok(input_auth)

\* A request arrives: a fresh RequestInput, not authenticated.
NewRequest ==
    /\ \E h \in Headers : header' = h
    /\ auth' = NoAuth
    /\ authn' = NotRun
    /\ authz' = NotRun
    /\ UNCHANGED <<lexVars, pqVars, otherVars, registry, checks, check>>

Authenticate ==
    /\ LET r == authenticate_handle(registry, header, auth) IN
        /\ authn' = r.res
        /\ auth' = r.auth
    /\ UNCHANGED <<lexVars, pqVars, otherVars, registry, checks, check, header, authz>>

Authorize ==
    /\ authz' = authorize_handle(check, auth)
    /\ UNCHANGED <<lexVars, pqVars, otherVars, registry, checks, check, header, auth, authn>>

----------------------------------------------------------------------------
(* server: EndpointHandler *)

\* XepakError values and the result of a step that succeeded.
Err(kind, msg) == [kind |-> kind, msg |-> msg]
OkOutcome == Err("Ok", "")

\* to_error_object: the status code, the "code" entry and the "message"
\* entry (has_message is FALSE when the map has no "message").
to_error_object(err) ==
    CASE err.kind = "NotFound" ->
            [status |-> 404, code |-> "not_found", has_message |-> TRUE, message |-> err.msg]
      [] err.kind = "Input" ->
            [status |-> 400, code |-> "bad_request", has_message |-> TRUE, message |-> err.msg]
      [] err.kind \in {"Decode", "WeScrewed"} ->
            [status |-> 500, code |-> "internal_error", has_message |-> TRUE, message |-> err.msg]
      [] err.kind = "Forbidden" ->
            [status |-> 403, code |-> "forbidden", has_message |-> TRUE, message |-> err.msg]
      [] OTHER ->
            [status |-> 520, code |-> "unknown_error", has_message |-> FALSE, message |-> ""]

\* The body of a successful response.
Data == [status |-> 200, code |-> "", has_message |-> FALSE, message |-> ""]
NoResponse == [status |-> 0, code |-> "", has_message |-> FALSE, message |-> ""]

\* The processors an endpoint can configure, and the processor each adds.
EndpointProcessorConfs ==
    {<<>>, <<"ParseBodyArgs">>, <<"CheckAuth">>,
     <<"ParseBodyArgs", "CheckAuth">>, <<"CheckAuth", "ParseBodyArgs">>}
ProcessorOf(p) ==
    IF p = "ParseBodyArgs" THEN "BodyToArgsProcessor" ELSE "SimpleAuthProcessor"
ProcessorKinds ==
    {"QueryArgsProcessor", "InputArgsValidator", "BodyToArgsProcessor", "SimpleAuthProcessor"}

\* PreProcessorHandler::priority of each kind: the default, or an override.
Priorities == [ProcessorKinds -> {0, 1}]

\* sort_by_key(|b| Reverse(b.priority())): a stable sort, highest first.
RECURSIVE sort_by_reverse_priority(_, _)
sort_by_reverse_priority(ps, priority) ==
    IF ps = <<>> THEN <<>>
    ELSE LET n == Len(ps)
             sorted == sort_by_reverse_priority(SubSeq(ps, 1, n - 1), priority)
             x == ps[n]
         IN SelectSeq(sorted, LAMBDA e : priority[e] >= priority[x]) \o <<x>>
            \o SelectSeq(sorted, LAMBDA e : priority[e] < priority[x])

\* EndpointHandler::new: the two fixed processors, then the configured ones,
\* sorted by priority.
EndpointHandler_new(conf, priority) ==
    sort_by_reverse_priority(
        <<"QueryArgsProcessor", "InputArgsValidator">>
            \o [i \in DOMAIN conf |-> ProcessorOf(conf[i])],
        priority)

\* What a processor's handle and handle_resource can return.
ProcOutcomes ==
    {OkOutcome, Err("Input", "bad argument"), Err("Forbidden", "Not authenticated"),
     Err("Unexpected", "shared args")}
ResourceOutcomes ==
    {OkOutcome, Err("Cfg", "Data source not found"), Err("NotFound", "no rows")}

\* The loop of pre_process_request: p.handle(..)? for each processor.
RECURSIVE pre_process_loop(_, _, _, _)
pre_process_loop(procs, outs, i, ran) ==
    IF i > Len(procs) THEN [err |-> OkOutcome, ran |-> ran]
    ELSE LET o == outs[procs[i]] IN
         IF o.kind # "Ok" THEN [err |-> o, ran |-> Append(ran, procs[i])]
         ELSE pre_process_loop(procs, outs, i + 1, Append(ran, procs[i]))

\* pre_process_request that drops the processors' errors (mutant).
pre_process_request_unchecked(procs, outs) ==
    [err |-> OkOutcome, ran |-> pre_process_loop(procs, outs, 1, <<>>).ran]

pre_process_request(procs, outs) == pre_process_loop(procs, outs, 1, <<>>)

\* handle, up to the point where it awaits handle_resource: the processors
\* run; an error is answered at once, otherwise offset and limit are parsed.
HandleBegin ==
    /\ hpc \in {"idle", "done"}
    /\ \E outs \in [Range(processors) -> ProcOutcomes] :
        LET r == pre_process_request(processors, outs) IN
        /\ outcomes' = outs
        /\ IF r.err.kind # "Ok"
           THEN /\ trace' = r.ran
                /\ response' = to_error_object(r.err)
                /\ hpc' = "done"
           ELSE /\ trace' = Append(r.ran, "parse_offset_limit")
                /\ response' = NoResponse
                /\ hpc' = "resource"
    /\ UNCHANGED <<lexVars, pqVars, authVars, callVars, storeVars, processors>>

\* handle_resource returns and handle builds the response.
HandleResource ==
    /\ hpc = "resource"
    /\ \E d \in ResourceOutcomes :
        /\ trace' = Append(trace, "handle_resource")
        /\ response' = IF d.kind # "Ok" THEN to_error_object(d) ELSE Data
    /\ hpc' = "done"
    /\ UNCHANGED <<lexVars, pqVars, authVars, callVars, storeVars, processors, outcomes>>

----------------------------------------------------------------------------
(* types: XepakValue and its conversions *)

\* Widths. The program's i64 and usize have 64 bits, its i128 twice that, and
\* an f64 carries 53 significant bits; the model keeps that order
\* (MantissaBits < I64Bits - 1) at a size the checker's integers can hold.
I64Bits == 6
MantissaBits == 4
\* A finite float is a number of units of 2^-FracBits; f64::EPSILON, the gap
\* between 1.0 and the next float, is one unit.
FracBits == 2

RECURSIVE Pow2(_)
Pow2(n) == IF n = 0 THEN 1 ELSE 2 * Pow2(n - 1)
RECURSIVE Pow10(_)
Pow10(n) == IF n = 0 THEN 1 ELSE 10 * Pow10(n - 1)
Abs(x) == IF x < 0 THEN -x ELSE x

I64_MAX == Pow2(I64Bits - 1) - 1
I64_MIN == -Pow2(I64Bits - 1)
I128_MAX == Pow2(2 * I64Bits - 1) - 1
I128_MIN == -Pow2(2 * I64Bits - 1)
USIZE_MAX == Pow2(I64Bits) - 1
Unit == Pow2(FracBits)
EPSILON == 1

\* f64 values
Finite(n) == [class |-> "finite", units |-> n]
NaN == [class |-> "nan", units |-> 0]
Infinity == [class |-> "inf", units |-> 0]
NegInfinity == [class |-> "-inf", units |-> 0]

\* Rounding of a magnitude (in units) to MantissaBits significant bits, to
\* nearest, ties to even: what `as f64` and parsing do.
RECURSIVE ExpOf(_, _)
ExpOf(a, e) == IF a < Pow2(MantissaBits + e) THEN e ELSE ExpOf(a, e + 1)
RoundMag(a) ==
    LET e == ExpOf(a, 0) IN
    IF e = 0 THEN a
    ELSE LET q == a \div Pow2(e)
             r == a % Pow2(e)
             half == Pow2(e - 1)
             m == IF r > half \/ (r = half /\ q % 2 = 1) THEN q + 1 ELSE q
         IN m * Pow2(e)
to_f64(n) == Finite(IF n < 0 THEN -RoundMag(-n) ELSE RoundMag(n))

\* `i as f64` for an integer i
int_as_f64(i) == to_f64(i * Unit)

\* Comparisons of f64: every comparison with NaN is false.
FloatKey(f) ==
    CASE f.class = "inf" -> Pow2(2 * I64Bits + FracBits + 1)
      [] f.class = "-inf" -> -Pow2(2 * I64Bits + FracBits + 1)
      [] OTHER -> f.units
f_lt(a, b) == a.class # "nan" /\ b.class # "nan" /\ FloatKey(a) < FloatKey(b)
f_gt(a, b) == f_lt(b, a)
f_eq(a, b) == a.class # "nan" /\ b.class # "nan" /\ FloatKey(a) = FloatKey(b)

\* f64::trunc, f64::fract (self - self.trunc()) and f64::abs
TruncUnits(n) == IF n < 0 THEN -((-n) \div Unit) * Unit ELSE (n \div Unit) * Unit
fract(f) == IF f.class = "finite" THEN Finite(f.units - TruncUnits(f.units)) ELSE NaN
f_abs(f) ==
    CASE f.class = "finite" -> Finite(Abs(f.units))
      [] f.class = "-inf" -> Infinity
      [] OTHER -> f

\* XepakValue
Null == [variant |-> "Null", b |-> FALSE, i |-> 0, f |-> Finite(0), s |-> <<>>]
Boolean(b) == [variant |-> "Boolean", b |-> b, i |-> 0, f |-> Finite(0), s |-> <<>>]
Integer(i) == [variant |-> "Integer", b |-> FALSE, i |-> i, f |-> Finite(0), s |-> <<>>]
Float(f) == [variant |-> "Float", b |-> FALSE, i |-> 0, f |-> f, s |-> <<>>]
Text(s) == [variant |-> "Text", b |-> FALSE, i |-> 0, f |-> Finite(0), s |-> s]

get_type(v) == IF v.variant = "Integer" THEN "Int" ELSE v.variant

\* XepakError values of these operations, and Result
NoError == [kind |-> "", from |-> "", to |-> "", text |-> "", name |-> ""]
ConvertValue(from, to, text) ==
    [kind |-> "ConvertValue", from |-> from, to |-> to, text |-> text, name |-> ""]
Decode(text) == [kind |-> "Decode", from |-> "", to |-> "", text |-> text, name |-> ""]
Input(text, name) == [kind |-> "Input", from |-> "", to |-> "", text |-> text, name |-> name]
Success(val) == [ok |-> TRUE, val |-> val, err |-> NoError]
Failure(err) == [ok |-> FALSE, val |-> Null, err |-> err]

\* Decimal digits
DigitChars == <<"0", "1", "2", "3", "4", "5", "6", "7", "8", "9">>
IsDigit(c) == \E d \in DOMAIN DigitChars : DigitChars[d] = c
DigitVal(c) == (CHOOSE d \in DOMAIN DigitChars : DigitChars[d] = c) - 1
AllDigits(s) == \A k \in DOMAIN s : IsDigit(s[k])
RECURSIVE DigitsValue(_)
DigitsValue(s) ==
    IF s = <<>> THEN 0
    ELSE 10 * DigitsValue(SubSeq(s, 1, Len(s) - 1)) + DigitVal(s[Len(s)])

\* str::parse::<i128>: an optional sign, then one or more digits, and the
\* number must fit the type.
parse_int(s) ==
    LET signed == s # <<>> /\ s[1] \in {"+", "-"}
        digits == IF signed THEN Tail(s) ELSE s
        v == IF signed /\ s[1] = "-" THEN -DigitsValue(digits) ELSE DigitsValue(digits)
    IN IF s = <<>> THEN [ok |-> FALSE, v |-> 0, err |-> "cannot parse integer from empty string"]
       ELSE IF digits = <<>> \/ ~AllDigits(digits)
       THEN [ok |-> FALSE, v |-> 0, err |-> "invalid digit found in string"]
       ELSE IF v > I128_MAX
       THEN [ok |-> FALSE, v |-> 0, err |-> "number too large to fit in target type"]
       ELSE IF v < I128_MIN
       THEN [ok |-> FALSE, v |-> 0, err |-> "number too small to fit in target type"]
       ELSE [ok |-> TRUE, v |-> v, err |-> ""]

\* str::parse::<bool>
parse_bool(s) ==
    IF s = <<"t", "r", "u", "e">> THEN [ok |-> TRUE, v |-> TRUE, err |-> ""]
    ELSE IF s = <<"f", "a", "l", "s", "e">> THEN [ok |-> TRUE, v |-> FALSE, err |-> ""]
    ELSE [ok |-> FALSE, v |-> FALSE, err |-> "provided string was not true or false"]

LowerChar(c) ==
    CASE c = "I" -> "i" [] c = "N" -> "n" [] c = "F" -> "f" [] c = "A" -> "a"
      [] c = "T" -> "t" [] c = "Y" -> "y" [] OTHER -> c
to_lowercase(s) == [k \in DOMAIN s |-> LowerChar(s[k])]

\* str::parse::<f64>: an optional sign, then inf, infinity or nan in any
\* case, or digits with at most one point and at least one digit; the value
\* is rounded to the nearest float. (Texts with an exponent are not among
\* the inputs.)
parse_float(s) ==
    LET signed == s # <<>> /\ s[1] \in {"+", "-"}
        neg == signed /\ s[1] = "-"
        body == IF signed THEN Tail(s) ELSE s
        points == {k \in DOMAIN body : body[k] = "."}
        p == IF points = {} THEN Len(body) + 1 ELSE CHOOSE k \in points : TRUE
        int == SubSeq(body, 1, p - 1)
        frac == SubSeq(body, p + 1, Len(body))
        num == (DigitsValue(int) * Pow10(Len(frac)) + DigitsValue(frac)) * Unit
        den == Pow10(Len(frac))
        q == num \div den
        r == num % den
        n == IF 2 * r > den \/ (2 * r = den /\ q % 2 = 1) THEN q + 1 ELSE q
        bad == [ok |-> FALSE, v |-> NaN, err |-> "invalid float literal"]
    IN IF s = <<>> THEN [ok |-> FALSE, v |-> NaN, err |-> "cannot parse float from empty string"]
       ELSE IF to_lowercase(body) \in {<<"i", "n", "f">>, <<"i", "n", "f", "i", "n", "i", "t", "y">>}
       THEN [ok |-> TRUE, v |-> IF neg THEN NegInfinity ELSE Infinity, err |-> ""]
       ELSE IF to_lowercase(body) = <<"n", "a", "n">> THEN [ok |-> TRUE, v |-> NaN, err |-> ""]
       ELSE IF Cardinality(points) > 1 THEN bad
       ELSE IF ~AllDigits(int) \/ ~AllDigits(frac) \/ Len(int) + Len(frac) = 0 THEN bad
       ELSE [ok |-> TRUE, v |-> to_f64(IF neg THEN -n ELSE n), err |-> ""]

\* ToString of i128, bool and f64
RECURSIVE nat_to_string(_)
nat_to_string(n) ==
    IF n < 10 THEN <<DigitChars[n + 1]>>
    ELSE Append(nat_to_string(n \div 10), DigitChars[(n % 10) + 1])
int_to_string(i) == IF i < 0 THEN <<"-">> \o nat_to_string(-i) ELSE nat_to_string(i)
bool_to_string(b) == IF b THEN <<"t", "r", "u", "e">> ELSE <<"f", "a", "l", "s", "e">>
RECURSIVE frac_to_string(_)
frac_to_string(r) ==
    IF r = 0 THEN <<>>
    ELSE <<DigitChars[((r * 10) \div Unit) + 1]>> \o frac_to_string((r * 10) % Unit)
float_to_string(f) ==
    CASE f.class = "nan" -> <<"N", "a", "N">>
      [] f.class = "inf" -> <<"i", "n", "f">>
      [] f.class = "-inf" -> <<"-", "i", "n", "f">>
      [] OTHER ->
            LET a == Abs(f.units)
                r == a % Unit
            IN (IF f.units < 0 THEN <<"-">> ELSE <<>>) \o nat_to_string(a \div Unit)
               \o (IF r = 0 THEN <<>> ELSE <<".">> \o frac_to_string(r))

\* XepakType
XepakTypes == {"Null", "Boolean", "Int", "Float", "Text"}

\* What f64::to_int_unchecked can produce when its precondition does not
\* hold (undefined behaviour): some integer.
UBOutcomes == {0, I128_MIN, I128_MAX}
to_int_unchecked(f, ub) ==
    IF f.class = "finite" /\ TruncUnits(f.units) \div Unit \in I128_MIN..I128_MAX
    THEN TruncUnits(f.units) \div Unit
    ELSE ub

from_str_as(v, parse_as) ==
    CASE parse_as = "Null" -> Success(Null)
      [] parse_as = "Boolean" ->
            LET p == parse_bool(v) IN
            IF p.ok THEN Success(Boolean(p.v)) ELSE Failure(Decode(p.err))
      [] parse_as = "Int" ->
            LET p == parse_int(v) IN
            IF p.ok THEN Success(Integer(p.v)) ELSE Failure(Decode(p.err))
      [] parse_as = "Float" ->
            LET p == parse_float(v) IN
            IF p.ok THEN Success(Float(p.v)) ELSE Failure(Decode(p.err))
      [] parse_as = "Text" -> Success(Text(v))

\* as_int; the i128 it returns is shown wrapped as Integer. ub is what the
\* unchecked conversion yields where it is undefined.
as_int(self, ub) ==
    CASE self.variant = "Null" -> Failure(ConvertValue("Null", "Int", "Not possible"))
      [] self.variant = "Boolean" -> Success(Integer(IF self.b THEN 1 ELSE 0))
      [] self.variant = "Integer" -> Success(Integer(self.i))
      [] self.variant = "Float" ->
            IF f_gt(f_abs(fract(self.f)), Finite(EPSILON))
            THEN Failure(ConvertValue("Float", "Int", "Has fractional part"))
            ELSE IF f_gt(self.f, int_as_f64(I64_MAX)) \/ f_lt(self.f, int_as_f64(I64_MIN))
            THEN Failure(ConvertValue("Float", "Int", "Out of range"))
            ELSE Success(Integer(to_int_unchecked(self.f, ub)))
      [] self.variant = "Text" ->
            LET p == parse_int(self.s) IN
            IF p.ok THEN Success(Integer(p.v))
            ELSE Failure(ConvertValue("Text", "Int", p.err))

\* as_string; the String is shown wrapped as Text.
as_string(self) ==
    Success(Text(CASE self.variant = "Null" -> <<>>
                   [] self.variant = "Boolean" -> bool_to_string(self.b)
                   [] self.variant = "Integer" -> int_to_string(self.i)
                   [] self.variant = "Float" -> float_to_string(self.f)
                   [] self.variant = "Text" -> self.s))

\* as_bool; the bool is shown wrapped as Boolean.
as_bool(self) ==
    CASE self.variant = "Null" -> Failure(ConvertValue("Null", "Boolean", "Not possible"))
      [] self.variant = "Boolean" -> Success(Boolean(self.b))
      [] self.variant = "Integer" ->
            IF self.i = 0 THEN Success(Boolean(FALSE))
            ELSE IF self.i = 1 THEN Success(Boolean(TRUE))
            ELSE Failure(ConvertValue("Int", "Boolean", "Integer value cannot be a boolean"))
      [] self.variant = "Float" ->
            IF f_eq(self.f, Finite(0)) THEN Success(Boolean(FALSE))
            ELSE IF f_eq(self.f, Finite(Unit)) THEN Success(Boolean(TRUE))
            ELSE Failure(ConvertValue("Float", "Boolean", "Float value cannot be a boolean"))
      [] self.variant = "Text" ->
            LET p == parse_bool(self.s) IN
            IF p.ok THEN Success(Boolean(p.v)) ELSE Failure(Decode(p.err))

\* as_float; the f64 is shown wrapped as Float. f64::MAX and f64::MIN cast
\* to i128 are the ends of i128.
as_float(self) ==
    CASE self.variant = "Null" -> Failure(ConvertValue("Null", "Float", "Not possible"))
      [] self.variant = "Boolean" -> Success(Float(Finite(IF self.b THEN Unit ELSE 0)))
      [] self.variant = "Integer" ->
            IF self.i > I128_MAX \/ self.i < I128_MIN
            THEN Failure(ConvertValue("Int", "Float", "Out of range value"))
            ELSE Success(Float(int_as_f64(self.i)))
      [] self.variant = "Float" -> Success(Float(self.f))
      [] self.variant = "Text" ->
            LET p == parse_float(self.s) IN
            IF p.ok THEN Success(Float(p.v)) ELSE Failure(Decode(p.err))

----------------------------------------------------------------------------
(* Configured policies *)

MaxNested == 2
MaxChecks == 2

RoleNames == {<<"a">>, <<"A">>, <<"B">>}
IdNames == {<<"u", "1">>}
Leaves == {Role(v) : v \in RoleNames} \cup {Id(v) : v \in IdNames}
NestedLists == UNION {[1..n -> Leaves] : n \in 0..MaxNested}
Trees == Leaves \cup {And(n) : n \in NestedLists} \cup {Or(n) : n \in NestedLists}
CheckLists == UNION {[1..n -> Trees] : n \in 0..MaxChecks}

\* Policy trees of three levels, for an endpoint with a single check.
PolicyTrees ==
    Trees
    \cup {And(<<t>>) : t \in Trees} \cup {Or(<<t>>) : t \in Trees}
    \cup {And(<<t, l>>) : t \in Trees, l \in Leaves}
    \cup {Or(<<t, l>>) : t \in Trees, l \in Leaves}
    \cup {And(<<l, t>>) : t \in Trees, l \in Leaves}
    \cup {Or(<<l, t>>) : t \in Trees, l \in Leaves}

----------------------------------------------------------------------------
(* schema: convert_with_schema and apply_validator *)

\* ArgSchema and Schema (argument name -> ArgSchema)
ArgSchema(ty) == [ty |-> ty, required |-> FALSE, validate |-> <<>>]

\* convert_with_schema that ignores the strict flag (mutant).
convert_with_schema_lenient(schema, arg_name, value, strict, ub) ==
    IF arg_name \notin DOMAIN schema THEN Success(value)
    ELSE IF value.variant = "Null" THEN Success(value)
    ELSE LET ty == schema[arg_name].ty IN
         CASE ty = "Null" -> Failure(Input("Can't convert argument to Null type", arg_name))
           [] ty = "Text" -> as_string(value)
           [] ty = "Boolean" -> as_bool(value)
           [] ty = "Int" -> as_int(value, ub)
           [] ty = "Float" -> as_float(value)

\* convert_with_schema that converts Null like any other value (mutant).
convert_with_schema_null_converted(schema, arg_name, value, strict, ub) ==
    IF arg_name \notin DOMAIN schema
    THEN IF strict
         THEN Failure(Input("Input argument not allowed in this context", arg_name))
         ELSE Success(value)
    ELSE LET ty == schema[arg_name].ty IN
         CASE ty = "Null" -> Failure(Input("Can't convert argument to Null type", arg_name))
           [] ty = "Text" -> as_string(value)
           [] ty = "Boolean" -> as_bool(value)
           [] ty = "Int" -> as_int(value, ub)
           [] ty = "Float" -> as_float(value)

convert_with_schema(schema, arg_name, value, strict, ub) ==
    IF arg_name \notin DOMAIN schema
    THEN IF strict
         THEN Failure(Input("Input argument not allowed in this context", arg_name))
         ELSE Success(value)
    ELSE IF value.variant = "Null" THEN Success(value)
    ELSE LET ty == schema[arg_name].ty IN
         CASE ty = "Null" -> Failure(Input("Can't convert argument to Null type", arg_name))
           [] ty = "Text" -> as_string(value)
           [] ty = "Boolean" -> as_bool(value)
           [] ty = "Int" -> as_int(value, ub)
           [] ty = "Float" -> as_float(value)

\* ArgSchemaValidator values
NotNull == [kind |-> "not_null", from |-> 0, to |-> 0,
            ffrom |-> Finite(0), fto |-> Finite(0), nested |-> <<>>]
RangeV(from, to) == [kind |-> "range", from |-> from, to |-> to,
                     ffrom |-> Finite(0), fto |-> Finite(0), nested |-> <<>>]
RangeFloat(from, to) == [kind |-> "range_float", from |-> 0, to |-> 0,
                         ffrom |-> from, fto |-> to, nested |-> <<>>]
AndV(nested) == [kind |-> "and", from |-> 0, to |-> 0,
                 ffrom |-> Finite(0), fto |-> Finite(0), nested |-> nested]
OrV(nested) == [kind |-> "or", from |-> 0, to |-> 0,
                ffrom |-> Finite(0), fto |-> Finite(0), nested |-> nested]

\* The casts `as usize` of an i128 (keeps the low bits) and of an f64
\* (saturates; NaN gives 0).
int_as_usize(i) == i % Pow2(I64Bits)
float_as_usize(f) ==
    CASE f.class = "nan" -> 0
      [] f.class = "inf" -> USIZE_MAX
      [] f.class = "-inf" -> 0
      [] OTHER -> IF f.units < 0 THEN 0
                  ELSE IF f.units \div Unit > USIZE_MAX THEN USIZE_MAX
                  ELSE f.units \div Unit

\* An Input error of a validator: the text, the argument, and the numbers
\* the message shows.
ValidatorError(text, name, shown) ==
    [kind |-> "Input", from |-> "", to |-> "", text |-> text, name |-> name, shown |-> shown]
Passed == [kind |-> "", from |-> "", to |-> "", text |-> "", name |-> "", shown |-> <<>>]

\* The arms of apply_validator that are not And or Or.
apply_leaf(validator, name, value) ==
    CASE validator.kind = "not_null" ->
            IF value.variant = "Null"
            THEN ValidatorError("must not be null/undefined", name, <<>>)
            ELSE Passed
      [] validator.kind = "range" ->
            LET from == validator.from
                to == validator.to
                shown == <<nat_to_string(from), nat_to_string(to)>>
            IN CASE value.variant = "Text" ->
                       LET l == Len(value.s) IN
                       IF l < from \/ l > to
                       THEN ValidatorError("length is not within a range", name,
                                           <<nat_to_string(l)>> \o shown)
                       ELSE Passed
                 [] value.variant = "Integer" ->
                       LET v == int_as_usize(value.i) IN
                       IF v < from \/ v > to
                       THEN ValidatorError("value is not within a range", name,
                                           <<int_to_string(value.i)>> \o shown)
                       ELSE Passed
                 [] value.variant = "Float" ->
                       LET v == float_as_usize(value.f) IN
                       IF v < from \/ v > to
                       THEN ValidatorError("value is not within a range", name,
                                           <<float_to_string(value.f)>> \o shown)
                       ELSE Passed
                 [] OTHER -> ValidatorError("must be a text, but got", name, <<>>)
      [] validator.kind = "range_float" ->
            LET from == validator.ffrom
                to == validator.fto
                shown == <<float_to_string(from), float_to_string(to)>>
            IN CASE value.variant = "Text" ->
                       LET l == int_as_f64(Len(value.s)) IN
                       IF f_lt(l, from) \/ f_gt(l, to)
                       THEN ValidatorError("length is not within a range", name,
                                           <<float_to_string(l)>> \o shown)
                       ELSE Passed
                 [] value.variant = "Integer" ->
                       LET v == int_as_f64(value.i) IN
                       IF f_lt(v, from) \/ f_gt(v, to)
                       THEN ValidatorError("value is not within a range", name,
                                           <<int_to_string(value.i)>> \o shown)
                       ELSE Passed
                 [] value.variant = "Float" ->
                       LET v == value.f IN
                       IF f_lt(v, from) \/ f_gt(v, to)
                       THEN ValidatorError("value is not within a range", name,
                                           <<float_to_string(value.f)>> \o shown)
                       ELSE Passed
                 [] OTHER -> ValidatorError("must be a text, but got", name, <<>>)

\* apply_validator returns the error (Passed for Ok) and, for the properties,
\* the validators it was applied to, in order.
RECURSIVE apply_validator(_, _, _)
RECURSIVE and_loop(_, _, _, _, _)
RECURSIVE or_loop(_, _, _, _, _, _)
RECURSIVE or_loop_first_error(_, _, _, _, _, _)

\* for v in nested { apply_validator(v, name, value)?; }
and_loop(nested, i, name, value, visited) ==
    IF i > Len(nested) THEN [err |-> Passed, visited |-> visited]
    ELSE LET r == apply_validator(nested[i], name, value) IN
         IF r.err # Passed THEN [err |-> r.err, visited |-> visited \o r.visited]
         ELSE and_loop(nested, i + 1, name, value, visited \o r.visited)

\* The loop of the Or arm, keeping the first error instead of the last (for
\* the mutant).
or_loop_first_error(nested, i, name, value, last_error, visited) ==
    IF i > Len(nested) THEN [err |-> last_error, visited |-> visited]
    ELSE LET r == apply_validator(nested[i], name, value) IN
         IF r.err = Passed THEN [err |-> Passed, visited |-> visited \o r.visited]
         ELSE or_loop_first_error(nested, i + 1, name, value,
                                  IF last_error = Passed THEN r.err ELSE last_error,
                                  visited \o r.visited)

\* The loop of the Or arm: Ok on the first nested validator that passes;
\* after the loop, the last error if there is one.
or_loop(nested, i, name, value, last_error, visited) ==
    IF i > Len(nested) THEN [err |-> last_error, visited |-> visited]
    ELSE LET r == apply_validator(nested[i], name, value) IN
         IF r.err = Passed THEN [err |-> Passed, visited |-> visited \o r.visited]
         ELSE or_loop(nested, i + 1, name, value, r.err, visited \o r.visited)

\* apply_validator whose Or arm reports the first error (mutant).
apply_validator_first_error(validator, name, value) ==
    CASE validator.kind = "and" -> and_loop(validator.nested, 1, name, value, <<validator>>)
      [] validator.kind = "or" ->
            or_loop_first_error(validator.nested, 1, name, value, Passed, <<validator>>)
      [] OTHER -> [err |-> apply_leaf(validator, name, value), visited |-> <<validator>>]

apply_validator(validator, name, value) ==
    CASE validator.kind = "and" -> and_loop(validator.nested, 1, name, value, <<validator>>)
      [] validator.kind = "or" ->
            or_loop(validator.nested, 1, name, value, Passed, <<validator>>)
      [] OTHER -> [err |-> apply_leaf(validator, name, value), visited |-> <<validator>>]

----------------------------------------------------------------------------
(* Calls of the value operations *)

NotCalled == [op |-> "", res |-> <<>>]

AsInt ==
    /\ "value" \in DOMAIN arg
    /\ \E ub \in UBOutcomes : ret' = [op |-> "as_int", res |-> as_int(arg.value, ub)]
    /\ UNCHANGED <<lexVars, pqVars, authVars, handlerVars, storeVars, arg>>

AsBool ==
    /\ "value" \in DOMAIN arg
    /\ ret' = [op |-> "as_bool", res |-> as_bool(arg.value)]
    /\ UNCHANGED <<lexVars, pqVars, authVars, handlerVars, storeVars, arg>>

AsFloat ==
    /\ "value" \in DOMAIN arg
    /\ ret' = [op |-> "as_float", res |-> as_float(arg.value)]
    /\ UNCHANGED <<lexVars, pqVars, authVars, handlerVars, storeVars, arg>>

AsString ==
    /\ "value" \in DOMAIN arg
    /\ ret' = [op |-> "as_string", res |-> as_string(arg.value)]
    /\ UNCHANGED <<lexVars, pqVars, authVars, handlerVars, storeVars, arg>>

\* from_str_as on the text of a Text value, for each type to parse as
FromStrAs ==
    /\ "value" \in DOMAIN arg /\ arg.value.variant = "Text"
    /\ \E parse_as \in XepakTypes :
        ret' = [op |-> "from_str_as", parse_as |-> parse_as,
                res |-> from_str_as(arg.value.s, parse_as)]
    /\ UNCHANGED <<lexVars, pqVars, authVars, handlerVars, storeVars, arg>>

ConvertWithSchema ==
    /\ "schema" \in DOMAIN arg
    /\ \E ub \in UBOutcomes :
        ret' = [op |-> "convert_with_schema",
                res |-> convert_with_schema(arg.schema, arg.arg_name, arg.value,
                                            arg.strict, ub)]
    /\ UNCHANGED <<lexVars, pqVars, authVars, handlerVars, storeVars, arg>>

ApplyValidator ==
    /\ "validator" \in DOMAIN arg
    /\ ret' = [op |-> "apply_validator",
               res |-> apply_validator(arg.validator, arg.name, arg.value)]
    /\ UNCHANGED <<lexVars, pqVars, authVars, handlerVars, storeVars, arg>>

ToErrorObject ==
    /\ "err" \in DOMAIN arg
    /\ ret' = [op |-> "to_error_object", res |-> to_error_object(arg.err)]
    /\ UNCHANGED <<lexVars, pqVars, authVars, handlerVars, storeVars, arg>>

----------------------------------------------------------------------------
(* Inputs of the value operations *)

\* Every kind of XepakError, each with some message
ErrorKinds ==
    {"Cfg", "Io", "Input", "NotFound", "Forbidden", "WeScrewed", "ConvertValue",
     "Convert", "Decode", "ScriptParse", "Script", "NotConsistent", "Unexpected", "Other"}
ErrorMessages == {"", "Not authenticated", "bad argument", "no rows"}
ErrorInputs == {Err(kind, msg) : kind \in ErrorKinds, msg \in ErrorMessages}

\* The floats up to twice the i64 range, and the three special values
FloatRange == 2 * Pow2(I64Bits - 1) * Unit
FloatInputs ==
    {Finite(n) : n \in {k \in -FloatRange..FloatRange : to_f64(k) = Finite(k)}}
    \cup {NaN, Infinity, NegInfinity}
IntInputs ==
    {I128_MIN, I64_MIN - 1, I64_MIN, -USIZE_MAX, -5, -1, 0, 1, 2, 5, 10, 11,
     I64_MAX, I64_MAX + 1, USIZE_MAX, USIZE_MAX + 1, USIZE_MAX + 6, I128_MAX}
TextInputs ==
    {<<>>, <<"5">>, <<"-", "5">>, <<"+", "5">>, <<"0", "5">>, <<" ", "5">>, <<"-">>,
     <<"2", ".", "5">>, <<"2", ".", "0">>, <<".", "5">>, <<"5", ".">>, <<".">>,
     <<"1", ".", "2", ".", "3">>, <<"9", "9", "9", "9", "9">>,
     <<"a", "b", "c">>, <<"t", "r", "u", "e">>, <<"f", "a", "l", "s", "e">>,
     <<"T", "r", "u", "e">>, <<"1">>, <<"0">>, <<"n", "a", "n">>, <<"i", "n", "f">>,
     <<"-", "I", "N", "F">>}
ValueInputs ==
    {Null, Boolean(TRUE), Boolean(FALSE)} \cup {Integer(i) : i \in IntInputs}
    \cup {Float(f) : f \in FloatInputs} \cup {Text(s) : s \in TextInputs}

\* Schemas over two argument names; "x" is in no schema.
SchemaNames == {"id", "q"}
ArgNames == SchemaNames \cup {"x"}
SchemaInputs ==
    UNION {[names -> {ArgSchema(ty) : ty \in XepakTypes}] : names \in SUBSET SchemaNames}

\* Validators: leaves, And/Or over lists of leaves, and one more level
ValidatorLeaves ==
    {NotNull, RangeV(2, 10), RangeV(0, USIZE_MAX),
     RangeFloat(Finite(0), Finite(3 * Unit))}
ValidatorLists == UNION {[1..n -> ValidatorLeaves] : n \in 0..MaxNested}
ValidatorTrees ==
    ValidatorLeaves \cup {AndV(n) : n \in ValidatorLists} \cup {OrV(n) : n \in ValidatorLists}
ValidatorInputs ==
    ValidatorTrees
    \cup {AndV(<<t, l>>) : t \in ValidatorTrees, l \in ValidatorLeaves}
    \cup {OrV(<<t, l>>) : t \in ValidatorTrees, l \in ValidatorLeaves}
    \cup {AndV(<<l, t>>) : t \in ValidatorTrees, l \in ValidatorLeaves}
    \cup {OrV(<<l, t>>) : t \in ValidatorTrees, l \in ValidatorLeaves}
ValidatedValues ==
    {Null, Boolean(TRUE), Text(<<>>), Text(<<"a", "b", "c">>),
     Text(<<"9", "9", "9", "9", "9", "9", "9", "9", "9", "9", "9">>),
     Float(NaN), Float(Finite(-Unit)), Float(Finite(2 * Unit + 2)), Float(Infinity)}
    \cup {Integer(i) : i \in {I128_MIN, -USIZE_MAX, -1, 0, 1, 2, 5, 10, 11,
                              USIZE_MAX, USIZE_MAX + 1, USIZE_MAX + 6}}

\* Path arguments captured from the URI, and values set by the processors
PathArgInputs ==
    UNION {[names -> {Text(<<"7">>)}] : names \in SUBSET SchemaNames}
StoredValues == {Null, Integer(5), Text(<<"8">>)}
StoreSchemas == {<<>>, [n \in {"id"} |-> ArgSchema("Int")]}

\* Templates of distinct characters, none of them a character of a token,
\* and lists of ranges from..=to inside the template, in any order.
Alphabet == <<"a", "b", "c", "d", "e", "f">>
RangeTemplates == {SubSeq(Alphabet, 1, n) : n \in 0..MaxTemplateLen}
RangesIn(query) ==
    {r \in [from : 0..(Len(query) - 1), to : 0..(Len(query) - 1)] : r.from <= r.to}
RangeLists(query) ==
    UNION {[1..n -> RangesIn(query)] : n \in 0..MaxRanges}

\* Pagination: the endpoint's argument names and maximum fetch size, and the
\* values a caller can send under those names.
PagingNames == [offset_arg : {"", "offset"}, limit_arg : {"", "limit"}, limit_max : {2, 10}]
PagingValues ==
    {Null, Boolean(TRUE), Float(NaN), Float(Finite(3 * Unit)), Float(Finite(10 * Unit + 2)),
     Float(Finite(-Unit)), Text(<<"5">>), Text(<<"-", "5">>), Text(<<"a", "b", "c">>),
     Text(<<"9", "9", "9", "9", "9">>), Text(<<>>)}
    \cup {Integer(i) : i \in {-1, 0, 1, 2, 5, 10, 11, USIZE_MAX, USIZE_MAX + 1}}
PagingArgs ==
    UNION {[names -> PagingValues] : names \in SUBSET {"limit", "offset"}}

----------------------------------------------------------------------------
(* server: the request's argument store *)

\* RequestArgs::new: the path arguments captured from the URI, as Text, and
\* no other argument yet.
RequestArgs_new(schema, strict_schema, path_args) ==
    [schema |-> schema, strict_schema |-> strict_schema,
     path_args |-> path_args, args |-> <<>>, limit |-> 0, offset |-> 0]

NoLookup ==
    [op |-> "", name |-> "", found |-> FALSE, value |-> Null, err |-> NoError,
     shared |-> FALSE]
Some(op, name, value) ==
    [NoLookup EXCEPT !.op = op, !.name = name, !.found = TRUE, !.value = value]
Nothing(op, name) == [NoLookup EXCEPT !.op = op, !.name = name]

\* RequestArgs::get_arg_value
RequestArgs_get_arg_value(self, argument) ==
    IF argument \notin DOMAIN self.path_args
    THEN IF argument \in DOMAIN self.args
         THEN Some("RequestArgs::get_arg_value", argument, self.args[argument])
         ELSE Nothing("RequestArgs::get_arg_value", argument)
    ELSE Some("RequestArgs::get_arg_value", argument, self.path_args[argument])

\* RequestInput::get_arg_value, over its path_args and query_args
RequestInput_get_arg_value(self, argument) ==
    IF argument \notin DOMAIN self.path_args
    THEN IF argument \in DOMAIN self.args
         THEN Some("RequestInput::get_arg_value", argument, self.args[argument])
         ELSE Nothing("RequestInput::get_arg_value", argument)
    ELSE Nothing("RequestInput::get_arg_value", argument)

\* Mutant: the map is written even when it has another owner.
set_arg_with_schema_shared_write(self, name, value, from_request, shared, ub) ==
    LET r == convert_with_schema(self.schema, name, value,
                                 self.strict_schema /\ from_request, ub)
    IN IF ~r.ok THEN [store |-> self, err |-> r.err]
       ELSE [store |-> [self EXCEPT !.args =
                           [k \in DOMAIN self.args \cup {name} |->
                               IF k = name THEN r.val ELSE self.args[k]]],
             err |-> NoError]

\* set_arg_with_schema: the store after, and the error if any. shared says
\* that the args map has another owner, so Arc::get_mut gives None.
set_arg_with_schema(self, name, value, from_request, shared, ub) ==
    IF shared
    THEN [store |-> self,
          err |-> [NoError EXCEPT !.kind = "Unexpected",
                                  !.text = "Must acquire args &mut reference here by design"]]
    ELSE LET r == convert_with_schema(self.schema, name, value,
                                      self.strict_schema /\ from_request, ub)
         IN IF ~r.ok THEN [store |-> self, err |-> r.err]
            ELSE [store |-> [self EXCEPT !.args =
                                [k \in DOMAIN self.args \cup {name} |->
                                    IF k = name THEN r.val ELSE self.args[k]]],
                  err |-> NoError]

SetArgWithSchema ==
    /\ \E name \in ArgNames, value \in StoredValues, from_request \in BOOLEAN,
          shared \in BOOLEAN, ub \in UBOutcomes :
        LET r == set_arg_with_schema(store, name, value, from_request, shared, ub) IN
        /\ store' = r.store
        /\ got' = [NoLookup EXCEPT !.op = "set_arg_with_schema", !.name = name,
                                   !.err = r.err, !.shared = shared]
    /\ UNCHANGED <<lexVars, pqVars, authVars, handlerVars, callVars>>

GetArgValue ==
    /\ \E argument \in ArgNames : got' = RequestArgs_get_arg_value(store, argument)
    /\ UNCHANGED <<lexVars, pqVars, authVars, handlerVars, callVars, store>>

RequestInputGetArgValue ==
    /\ \E argument \in ArgNames : got' = RequestInput_get_arg_value(store, argument)
    /\ UNCHANGED <<lexVars, pqVars, authVars, handlerVars, callVars, store>>


NoUsize == [some |-> FALSE, v |-> 0]

\* RequestArgs::parse_usize_from
parse_usize_from(self, arg_name, ub) ==
    LET value == RequestArgs_get_arg_value(self, arg_name) IN
    IF ~value.found THEN NoUsize
    ELSE LET ivalue == as_int(value.value, ub) IN
         IF ~ivalue.ok THEN NoUsize
         ELSE IF ivalue.val.i < 0 \/ ivalue.val.i > USIZE_MAX THEN NoUsize
         ELSE [some |-> TRUE, v |-> int_as_usize(ivalue.val.i)]

\* RequestArgs::parse_offset_limit
parse_offset_limit(self, offset_arg, limit_arg, limit_max, ub) ==
    LET l == parse_usize_from(self, limit_arg, ub)
        with_limit == IF limit_arg # ""
                      THEN [self EXCEPT !.limit = IF l.some THEN l.v ELSE limit_max]
                      ELSE self
        o == parse_usize_from(with_limit, offset_arg, ub)
    IN IF offset_arg # ""
       THEN [with_limit EXCEPT !.offset = IF o.some THEN o.v ELSE 0]
       ELSE with_limit

\* ri.parse_offset_limit(&ep.offset_arg, &ep.limit_arg, ep.fetch_limit)
ParseOffsetLimit ==
    /\ ret.op = ""
    /\ \E ub \in UBOutcomes :
         store' = parse_offset_limit(store, arg.offset_arg, arg.limit_arg,
                                     arg.limit_max, ub)
    /\ ret' = [op |-> "parse_offset_limit", res |-> <<>>]
    /\ UNCHANGED <<lexVars, pqVars, authVars, handlerVars, arg, got>>

----------------------------------------------------------------------------
(* storage: Storage::query and prepare_query *)

LIMIT_KEY == <<"-", "l", "i", "m", "i", "t", "-">>
OFFSET_KEY == <<"-", "o", "f", "f", "s", "e", "t", "-">>

\* `as i64` on an integer: the low I64Bits bits, read as a signed number.
as_i64(n) == ((n + Pow2(I64Bits - 1)) % Pow2(I64Bits)) - Pow2(I64Bits - 1)

get_rows_limit(self) == self.limit
get_rows_offset(self) == self.offset

\* XepakValue::bind_sqlx: the value the driver receives.
bind_sqlx(self) ==
    IF self.variant = "Integer" THEN Integer(as_i64(self.i)) ELSE self

\* The query under preparation: its text and the values bound so far.
Prepared(text, bound) ==
    [ok |-> TRUE, text |-> text, bound |-> bound, err |-> NoError, missing |-> <<>>]
NotPrepared(err, arg_name) ==
    [ok |-> FALSE, text |-> <<>>, bound |-> <<>>, err |-> err, missing |-> arg_name]

\* RequestArgs::bind_arg
bind_arg(self, arg_name, query) ==
    LET value == RequestArgs_get_arg_value(self, arg_name) IN
    IF ~value.found
    THEN NotPrepared([NoError EXCEPT
                         !.kind = "Input",
                         !.text = "Can't bind argument - does not exists in request."],
                     arg_name)
    ELSE Prepared(query.text, Append(query.bound, bind_sqlx(value.value)))

\* The `for argument_name in pquery.get_args()` loop of prepare_query
\* (mutant: a reserved name is bound from the store when the store has it).
RECURSIVE prepare_loop_lookup_first(_, _, _)
prepare_loop_lookup_first(args, names, sql_query) ==
    IF names = <<>> THEN sql_query
    ELSE LET argument_name == Head(names)
             next == IF argument_name \in {LIMIT_KEY, OFFSET_KEY}
                        /\ ~RequestArgs_get_arg_value(args, argument_name).found
                     THEN Prepared(sql_query.text,
                                   Append(sql_query.bound,
                                          Integer(as_i64(IF argument_name = LIMIT_KEY
                                                         THEN get_rows_limit(args)
                                                         ELSE get_rows_offset(args)))))
                     ELSE bind_arg(args, argument_name, sql_query)
         IN IF ~next.ok THEN next
            ELSE prepare_loop_lookup_first(args, Tail(names), next)

RECURSIVE prepare_loop(_, _, _)
prepare_loop(args, names, sql_query) ==
    IF names = <<>> THEN sql_query
    ELSE LET argument_name == Head(names)
             next == CASE argument_name = LIMIT_KEY ->
                            Prepared(sql_query.text,
                                     Append(sql_query.bound,
                                            Integer(as_i64(get_rows_limit(args)))))
                       [] argument_name = OFFSET_KEY ->
                            Prepared(sql_query.text,
                                     Append(sql_query.bound,
                                            Integer(as_i64(get_rows_offset(args)))))
                       [] OTHER -> bind_arg(args, argument_name, sql_query)
         IN IF ~next.ok THEN next ELSE prepare_loop(args, Tail(names), next)

prepare_query_lookup_first(args, pquery, query) ==
    prepare_loop_lookup_first(args, pquery.args, Prepared(query, <<>>))

\* Storage::prepare_query
prepare_query(args, pquery, query) ==
    prepare_loop(args, pquery.args, Prepared(query, <<>>))

\* The text of the first bound value, as as_string gives it.
FirstValueText(args, pquery) ==
    LET v == RequestArgs_get_arg_value(args, pquery.args[1]) IN
    IF v.found THEN as_string(v.value).val.s ELSE <<"?">>

\* Mutant: the value of the first argument is written into the text.
Storage_query_inlined(args, request_query) ==
    LET pquery == ParametrizedQueryRef_new(request_query)
        query == build_query(request_query, pquery,
                             IF has_args(pquery) THEN FirstValueText(args, pquery)
                             ELSE <<"?">>)
        sql_query == prepare_query(args, pquery, <<"?">>)
    IN [executed |-> sql_query.ok, text |-> query, names |-> pquery.args,
        bound |-> sql_query.bound, err |-> sql_query.err,
        missing |-> sql_query.missing]

\* Storage::query up to fetch_all: what is sent to the database, or the
\* error that prepare_query returned, in which case nothing is sent.
Storage_query(args, request_query) ==
    LET pquery == ParametrizedQueryRef_new(request_query)
        query == build_query(request_query, pquery, <<"?">>)
        sql_query == prepare_query(args, pquery, query)
    IN [executed |-> sql_query.ok, text |-> query, names |-> pquery.args,
        bound |-> sql_query.bound, err |-> sql_query.err,
        missing |-> sql_query.missing]

Query ==
    /\ ret.op = ""
    /\ ret' = [op |-> "query", res |-> Storage_query(store, sql)]
    /\ UNCHANGED <<lexVars, pqVars, authVars, handlerVars, storeVars, arg>>

\* Resource templates: up to MaxPieces pieces, each a piece of SQL text or a
\* key arg, the reserved names among them.
KeyArg(name) == <<"{", "{">> \o name \o <<"}", "}">>
QueryNames == {<<"i", "d">>, <<"q">>, LIMIT_KEY, OFFSET_KEY}
Pieces == {<<"s", " ">>} \cup {KeyArg(n) : n \in QueryNames}
QueryTemplates ==
    {Flatten(ps) : ps \in UNION {[1..n -> Pieces] : n \in 0..MaxPieces}}

\* Stores of a request: "id" may be a path argument, "q" and an argument
\* named as the reserved limit name may have been inserted.
QueryStores ==
    {[RequestArgs_new(<<>>, FALSE, path) EXCEPT !.args = args, !.limit = l, !.offset = 1] :
        path \in UNION {[ns -> {Text(<<"7">>)}] : ns \in SUBSET {<<"i", "d">>}},
        args \in UNION {[ns -> {Integer(5), Text(<<"8">>)}] :
                           ns \in SUBSET {<<"q">>, LIMIT_KEY}},
        l \in {3, USIZE_MAX}}

----------------------------------------------------------------------------
(* Specifications *)

LexIdle ==
    /\ sql_index = 0 /\ offset = 0 /\ result = None /\ occs = <<>> /\ calls = 0
QueryIdle == pq = NoQuery /\ built = NotBuilt
AuthIdle ==
    /\ registry = <<>> /\ checks = <<>> /\ check = NoCheck
    /\ header = NoHeader /\ auth = NoAuth /\ authn = NotRun /\ authz = NotRun
HandlerIdle ==
    /\ processors = <<>> /\ outcomes = <<>> /\ trace = <<>>
    /\ response = NoResponse /\ hpc = "idle"
CallIdle == arg = <<>> /\ ret = NotCalled
StoreIdle == store = <<>> /\ got = NoLookup
OtherIdle == HandlerIdle /\ CallIdle /\ StoreIdle

\* SqlLexer::new(sql)
Init == sql \in Templates /\ LexIdle /\ QueryIdle /\ AuthIdle /\ OtherIdle
Next == NextKeyArg
Spec == Init /\ [][Next]_vars

\* A template about to be handed to ParametrizedQueryRef::new
InitQuery == sql \in Templates /\ LexIdle /\ QueryIdle /\ AuthIdle /\ OtherIdle
NextQuery == PQNew \/ BuildQuery
SpecQuery == InitQuery /\ [][NextQuery]_vars

\* The registry and the AuthorizeProcessor are built at startup.
InitAuth ==
    /\ sql = <<>> /\ LexIdle /\ QueryIdle /\ OtherIdle
    /\ registry = auth_specs_to_registry(AuthSpecsConf).map
    /\ checks \in CheckLists
    /\ check = AuthorizeProcessor_new(checks)
    /\ header \in Headers
    /\ auth = NoAuth /\ authn = NotRun /\ authz = NotRun
NextAuth == NewRequest \/ Authenticate \/ Authorize
SpecAuth == InitAuth /\ [][NextAuth]_vars

\* An endpoint configured with one check: the processor keeps it as given.
InitPolicy ==
    /\ sql = <<>> /\ LexIdle /\ QueryIdle /\ OtherIdle
    /\ registry = auth_specs_to_registry(AuthSpecsConf).map
    /\ checks \in {<<t>> : t \in PolicyTrees}
    /\ check = AuthorizeProcessor_new(checks)
    /\ header \in Headers
    /\ auth = NoAuth /\ authn = NotRun /\ authz = NotRun
NextPolicy == NewRequest \/ Authenticate \/ Authorize
SpecPolicy == InitPolicy /\ [][NextPolicy]_vars

\* An endpoint's handler is built at startup, then serves requests.
InitHandler ==
    /\ sql = <<>> /\ LexIdle /\ QueryIdle /\ AuthIdle /\ CallIdle /\ StoreIdle
    /\ \E conf \in EndpointProcessorConfs, priority \in Priorities :
        processors = EndpointHandler_new(conf, priority)
    /\ outcomes = <<>> /\ trace = <<>> /\ response = NoResponse /\ hpc = "idle"
NextHandler == HandleBegin \/ HandleResource
SpecHandler == InitHandler /\ [][NextHandler]_vars

\* A value about to be converted
InitTypes ==
    /\ sql = <<>> /\ LexIdle /\ QueryIdle /\ AuthIdle /\ HandlerIdle /\ StoreIdle
    /\ arg \in {[value |-> v] : v \in ValueInputs}
    /\ ret = NotCalled
NextTypes == AsInt \/ AsBool \/ AsFloat \/ AsString \/ FromStrAs
SpecTypes == InitTypes /\ [][NextTypes]_vars

\* An argument about to be converted by an endpoint's schema
InitSchema ==
    /\ sql = <<>> /\ LexIdle /\ QueryIdle /\ AuthIdle /\ HandlerIdle /\ StoreIdle
    /\ arg \in [schema : SchemaInputs, arg_name : ArgNames, value : ValueInputs,
                 strict : BOOLEAN]
    /\ ret = NotCalled
NextSchema == ConvertWithSchema
SpecSchema == InitSchema /\ [][NextSchema]_vars

\* An argument about to be validated
InitValidator ==
    /\ sql = <<>> /\ LexIdle /\ QueryIdle /\ AuthIdle /\ HandlerIdle /\ StoreIdle
    /\ arg \in [validator : ValidatorInputs, name : {"id"}, value : ValidatedValues]
    /\ ret = NotCalled
NextValidator == ApplyValidator
SpecValidator == InitValidator /\ [][NextValidator]_vars

\* A request's argument store, as RequestArgs::new leaves it
InitStore ==
    /\ sql = <<>> /\ LexIdle /\ QueryIdle /\ AuthIdle /\ HandlerIdle /\ CallIdle
    /\ \E schema \in StoreSchemas, strict_schema \in BOOLEAN, path_args \in PathArgInputs :
        store = RequestArgs_new(schema, strict_schema, path_args)
    /\ got = NoLookup
NextStore == SetArgWithSchema \/ GetArgValue \/ RequestInputGetArgValue
SpecStore == InitStore /\ [][NextStore]_vars

\* An error about to be turned into the error object of a response
InitErrors ==
    /\ sql = <<>> /\ LexIdle /\ QueryIdle /\ AuthIdle /\ HandlerIdle /\ StoreIdle
    /\ arg \in {[err |-> e] : e \in ErrorInputs}
    /\ ret = NotCalled
NextErrors == ToErrorObject
SpecErrors == InitErrors /\ [][NextErrors]_vars

\* query_to_pos_args applied to a template and the key args of its lexer.
InitPosArgs == sql \in Templates /\ LexIdle /\ QueryIdle /\ AuthIdle /\ OtherIdle
NextPosArgs == QueryToPosArgs
SpecPosArgs == InitPosArgs /\ [][NextPosArgs]_vars

\* A request whose arguments were collected, before the handler computes
\* the row limit and offset.
InitPaging ==
    /\ sql = <<>> /\ LexIdle /\ QueryIdle /\ AuthIdle /\ HandlerIdle
    /\ arg \in PagingNames
    /\ \E args \in PagingArgs :
         store = [RequestArgs_new(<<>>, FALSE, <<>>) EXCEPT !.args = args]
    /\ ret = NotCalled /\ got = NoLookup
NextPaging == ParseOffsetLimit
SpecPaging == InitPaging /\ [][NextPaging]_vars

\* build_pos_query applied to a template and any list of ranges inside it.
InitRanges ==
    /\ sql \in RangeTemplates /\ LexIdle /\ QueryIdle /\ AuthIdle
    /\ HandlerIdle /\ StoreIdle
    /\ arg \in {[ranges |-> rs] : rs \in RangeLists(sql)}
    /\ ret = NotCalled
NextRanges == BuildPosQuery
SpecRanges == InitRanges /\ [][NextRanges]_vars

\* A resource query run for a request whose arguments are collected.
InitStorage ==
    /\ sql \in QueryTemplates /\ LexIdle /\ QueryIdle /\ AuthIdle /\ HandlerIdle
    /\ store \in QueryStores /\ got = NoLookup
    /\ CallIdle
NextStorage == Query
SpecStorage == InitStorage /\ [][NextStorage]_vars

----------------------------------------------------------------------------
(* Reference notions used by the properties *)

NameChars == AlNum \cup NamePunct \cup {"_"}

\* The template text covered by an occurrence's range.
Covered(s, o) == SubSeq(s, o.from + 1, o.to + 1)

\* The covered text is {{name}} with the returned key as name.
IsBracedName(s, o) ==
    /\ o.to <= Len(s) - 1
    /\ Covered(s, o) = <<"{", "{">> \o o.key \o <<"}", "}">>
    /\ \A i \in DOMAIN o.key : o.key[i] \in NameChars

\* Offsets of the characters that are content of a quoted literal, by the
\* literal syntax of SQL: a quote opens a literal outside any literal; inside,
\* a backslash makes the next character content, a doubled quote is content,
\* and a single quote of the opening kind ends the literal.
RECURSIVE LiteralContent(_, _, _, _)
LiteralContent(s, i, q, esc) ==
    IF i >= Len(s) THEN {}
    ELSE LET ch == s[i + 1] IN
         IF q = "" THEN LiteralContent(s, i + 1, IF ch \in {"'", "\""} THEN ch ELSE "", FALSE)
         ELSE IF esc THEN {i} \cup LiteralContent(s, i + 1, q, FALSE)
         ELSE IF ch = "\\" THEN {i} \cup LiteralContent(s, i + 1, q, TRUE)
         ELSE IF ch = q
              THEN IF i + 1 < Len(s) /\ s[i + 2] = q
                   THEN {i, i + 1} \cup LiteralContent(s, i + 2, q, FALSE)
                   ELSE LiteralContent(s, i + 1, "", FALSE)
         ELSE {i} \cup LiteralContent(s, i + 1, q, FALSE)

InsideLiteral(s, o) == (o.from .. o.to) \subseteq LiteralContent(s, 0, "", FALSE)

\* The template with every range replaced by the token, position by position.
Rewritten(s, rngs, tok) ==
    Flatten([i \in 1..Len(s) |->
        IF \E k \in DOMAIN rngs : rngs[k].from = i - 1 THEN tok
        ELSE IF \E k \in DOMAIN rngs : rngs[k].from < i - 1 /\ i - 1 <= rngs[k].to THEN <<>>
        ELSE <<s[i]>>])

CountOf(c, s) == Cardinality({i \in DOMAIN s : s[i] = c})

----------------------------------------------------------------------------
(* Properties of the lexer (specification Spec) *)

\* C1: no occurrence returned by the lexer is a {{name}}-shaped piece of
\* text that lies inside a single- or double-quoted literal.
C1_NoOccurrenceInsideLiteral ==
    \A k \in DOMAIN occs :
        IsBracedName(sql, occs[k]) => ~InsideLiteral(sql, occs[k])

\* C2: the text covered by every returned occurrence is {{ + name + }} and
\* the name holds only ASCII letters, digits, underscore and hyphen.
C2_OccurrenceIsBracedName ==
    \A k \in DOMAIN occs : IsBracedName(sql, occs[k])

\* C3: no returned occurrence starts at the first of three consecutive
\* opening braces.
C3_ThirdBraceAborts ==
    \A k \in DOMAIN occs :
        ~(/\ occs[k].from + 3 <= Len(sql)
          /\ sql[occs[k].from + 1] = "{"
          /\ sql[occs[k].from + 2] = "{"
          /\ sql[occs[k].from + 3] = "{")

\* C4: successive occurrences of one pass have strictly increasing starts
\* and each starts after the end of the previous one.
C4_OccurrencesIncreasing ==
    /\ \A k \in DOMAIN occs : occs[k].from < occs[k].to
    /\ \A j, k \in DOMAIN occs :
          j < k => occs[j].from < occs[k].from /\ occs[j].to < occs[k].from

C4_Witness == Len(occs) >= 3

\* C8: next_key_arg never panics, returns None after at most Len(sql) / 4
\* occurrences and on every call after the first None, and returns no
\* occurrence for malformed placeholder syntax.
C8_LexerTotalAndStrict ==
    /\ ~result.panic
    /\ Len(occs) * 4 <= Len(sql)
    /\ calls > Len(occs) => result = None
    /\ \A k \in DOMAIN occs : IsBracedName(sql, occs[k])

----------------------------------------------------------------------------
(* Properties of the query builder (specification SpecQuery) *)

\* C5: build_query returns the template with each occurrence range replaced
\* by the token and all other text kept in order; with no occurrence it
\* returns the template.
C5_BuildQueryRewrites ==
    built.some =>
        /\ built.text = Rewritten(sql, LexAll(sql, 0), built.token)
        /\ LexAll(sql, 0) = <<>> => built.text = sql

C5_Witness ==
    /\ built.some
    /\ Len(pq.positions) >= 2
    /\ pq.positions[Len(pq.positions)].to + 1 < Len(sql)
    /\ pq.positions[1].from > 0

\* C6: the output of build_query("?") holds no occurrence, and building the
\* query from it returns it unchanged.
C6_RewriteIsFixedPoint ==
    (built.some /\ built.token = <<"?">>) =>
        /\ LexAll(built.text, 0) = <<>>
        /\ build_query(built.text, ParametrizedQueryRef_new(built.text), <<"?">>)
              = built.text

C6_Witness ==
    /\ built.some /\ built.token = <<"?">>
    /\ Len(pq.positions) >= 2
    /\ built.text # sql

\* C7: get_args holds the name of every occurrence in order of appearance,
\* duplicates included, and as many names as build_query inserts tokens.
C7_ArgsMatchOccurrences ==
    /\ pq.some =>
        /\ Len(pq.args) = Len(pq.positions)
        /\ \A i \in DOMAIN pq.args :
              pq.args[i] = SubSeq(sql, pq.positions[i].from + 3, pq.positions[i].to - 1)
        /\ \A i, j \in DOMAIN pq.positions :
              i < j => pq.positions[i].to < pq.positions[j].from
    /\ (pq.some /\ built.some /\ built.token = <<"?">>) =>
          CountOf("?", built.text) = Len(pq.args)

C7_Witness ==
    /\ built.some /\ built.token = <<"?">>
    /\ \E i, j \in DOMAIN pq.args : i < j /\ pq.args[i] = pq.args[j]

----------------------------------------------------------------------------
(* Properties of authorization (specification SpecAuth) *)

\* What a configured check means: Role names compare case-normalized, Id
\* compares exactly, And needs every nested check, Or needs one.
RECURSIVE Admits(_, _, _)
Admits(c, id, roles) ==
    CASE c.kind = "role" -> to_uppercase(c.v) \in roles
      [] c.kind = "id" -> id = c.v
      [] c.kind = "and" -> \A i \in DOMAIN c.nested : Admits(c.nested[i], id, roles)
      [] c.kind = "or" -> \E i \in DOMAIN c.nested : Admits(c.nested[i], id, roles)

Authorized == authz.status # "NotRun" /\ authz.caller.some

\* C9: with more than one configured check, an authenticated caller is
\* admitted exactly when at least one of the checks admits it.
C9_ChecksAreOred ==
    (Authorized /\ Len(checks) > 1) =>
        (authz.status = "Ok" <=>
            \E i \in DOMAIN checks :
                Admits(checks[i], authz.caller.id, authz.caller.roles))

\* C10: whatever the length of the check list, a top-level Role check whose
\* uppercased name is among the caller's roles admits the caller.
C10_RoleCaseNormalized ==
    (Authorized /\ \E i \in DOMAIN checks :
                      /\ checks[i].kind = "role"
                      /\ to_uppercase(checks[i].v) \in authz.caller.roles) =>
        authz.status = "Ok"

----------------------------------------------------------------------------
(* Claims on authentication and policy evaluation (SpecPolicy) *)

\* The header is absent, or is a key that the registry does not hold.
NoCredential == ~header.present
UnknownCredential == header.present /\ header.ascii /\ header.value \notin DOMAIN registry

RECURSIVE Evaluates(_, _, _)
Evaluates(c, id, roles) ==
    CASE c.kind = "role" -> c.v \in roles
      [] c.kind = "id" -> c.v = id
      [] c.kind = "and" -> \A i \in DOMAIN c.nested : Evaluates(c.nested[i], id, roles)
      [] c.kind = "or" -> \E i \in DOMAIN c.nested : Evaluates(c.nested[i], id, roles)

\* C13: for an authenticated caller and the policy tree of the endpoint,
\* AuthorizeProcessor admits the request exactly when the reference
\* evaluation of the tree is true: Role is membership in the role set, Id is
\* exact equality with the identity, And is all nested (empty: true), Or is
\* some nested (empty: false).
C13_IsAllowedIsReferenceEvaluation ==
    Authorized =>
        (authz.status = "Ok" <=> Evaluates(check, authz.caller.id, authz.caller.roles))

C13_Witness ==
    /\ Authorized /\ authz.status = "Ok"
    /\ check.kind = "and" /\ Len(check.nested) = 2
    /\ check.nested[1].kind = "or" /\ Len(check.nested[1].nested) = 2
    /\ ~Evaluates(check.nested[1].nested[1], authz.caller.id, authz.caller.roles)

----------------------------------------------------------------------------
(* Claims on the endpoint handler (SpecHandler) *)

\* The processors that return an error for the request, by position.
Failing == {i \in DOMAIN processors : outcomes[processors[i]].kind # "Ok"}
FirstFailing == CHOOSE i \in Failing : \A j \in Failing : i <= j

\* C12: once handle has taken a request, if any preprocessor returns an
\* error then handle_resource is not invoked, nothing runs after the first
\* failing preprocessor, and the response is that error's object;
\* handle_resource is invoked only after every preprocessor, in order, has
\* returned Ok.
C12_NoResourceAfterPreprocessorError ==
    hpc # "idle" =>
        /\ Failing # {} =>
            /\ hpc = "done"
            /\ "handle_resource" \notin Range(trace)
            /\ trace = SubSeq(processors, 1, FirstFailing)
            /\ response = to_error_object(outcomes[processors[FirstFailing]])
        /\ "handle_resource" \in Range(trace) =>
            /\ Failing = {}
            /\ trace = processors \o <<"parse_offset_limit", "handle_resource">>

C12_Witness ==
    /\ hpc = "done" /\ Len(processors) = 4
    /\ Failing = {3, 4}
    /\ processors[3] = "SimpleAuthProcessor"
    /\ response.status = 403 /\ Len(trace) = 3

----------------------------------------------------------------------------
(* Claims on convert_with_schema (SpecSchema) *)

Converted == ret.op = "convert_with_schema"
UnknownName == Converted /\ arg.arg_name \notin DOMAIN arg.schema

\* C14: convert_with_schema on a name that is not in the schema returns an
\* Input error naming the argument when strict is set, and otherwise returns
\* the value it was given, unchanged, whatever the value is.
C14_UnknownNameRejectedOrPassed ==
    UnknownName =>
        IF arg.strict
        THEN /\ ~ret.res.ok
             /\ ret.res.err.kind = "Input"
             /\ ret.res.err.name = arg.arg_name
        ELSE ret.res = Success(arg.value)

C14_Witness ==
    /\ UnknownName /\ arg.strict /\ arg.value.variant = "Float"
    /\ ret.res.err = Input("Input argument not allowed in this context", "x")

\* C15 as stated: convert_with_schema returns Ok(Null) for a Null value,
\* for every schema, argument name and strict flag.
C15_NullAlwaysPassesThrough ==
    (Converted /\ arg.value = Null) => ret.res = Success(Null)

\* C15 amended: convert_with_schema returns Ok(Null) for a Null value
\* whatever type the schema declares for the name, and for a name the schema
\* does not have when strict is not set; with strict set, a name the schema
\* does not have is rejected before the value is looked at.
C15_NullPassesThroughForAllowedName ==
    (Converted /\ arg.value = Null) =>
        IF arg.arg_name \in DOMAIN arg.schema \/ ~arg.strict
        THEN ret.res = Success(Null)
        ELSE ~ret.res.ok /\ ret.res.err.kind = "Input"

C15_Witness ==
    /\ Converted /\ arg.value = Null /\ arg.strict
    /\ arg.arg_name \in DOMAIN arg.schema
    /\ arg.schema[arg.arg_name].ty = "Int"
    /\ ret.res = Success(Null)

----------------------------------------------------------------------------
(* Claims on the conversions of XepakValue (SpecTypes) *)

\* C16: as_int on Float(v), v not NaN, fails with "Has fractional part"
\* when |fract(v)| exceeds epsilon, fails with "Out of range" when v is
\* outside the range of i64, and otherwise returns the integer part of v.
C16_FloatToInt ==
    (ret.op = "as_int" /\ arg.value.variant = "Float" /\ arg.value.f.class # "nan") =>
        LET f == arg.value.f
            n == f.units
            fractional == f.class = "finite" /\ Abs(n - TruncUnits(n)) > EPSILON
            outside == \/ f.class # "finite"
                       \/ n > I64_MAX * Unit
                       \/ n < I64_MIN * Unit
        IN IF fractional
           THEN ret.res = Failure(ConvertValue("Float", "Int", "Has fractional part"))
           ELSE IF outside
           THEN ret.res = Failure(ConvertValue("Float", "Int", "Out of range"))
           ELSE ret.res = Success(Integer(TruncUnits(n) \div Unit))

\* C17: a conversion of a Text value to Integer, Float or Boolean (as_int,
\* as_float, as_bool, from_str_as) that fails, fails with a Decode error.
C17_TextParseFailureIsDecode ==
    (/\ ret.op \in {"as_int", "as_float", "as_bool", "from_str_as"}
     /\ arg.value.variant = "Text"
     /\ ~ret.res.ok) => ret.res.err.kind = "Decode"

----------------------------------------------------------------------------
(* Claims on apply_validator (SpecValidator) *)

Applied == ret.op = "apply_validator"

\* The results of the nested validators, each applied on its own, and the
\* validators visited by the first k of them.
NestedResults ==
    [i \in DOMAIN arg.validator.nested |->
        apply_validator(arg.validator.nested[i], arg.name, arg.value)]
RECURSIVE VisitedBy(_, _)
VisitedBy(rs, k) == IF k = 0 THEN <<>> ELSE VisitedBy(rs, k - 1) \o rs[k].visited
Least(S) == CHOOSE i \in S : \A j \in S : i <= j

\* C18: apply_validator on And returns the error of the first nested
\* validator that fails and applies none after it, or Ok when none fails; on
\* Or it returns Ok at the first nested validator that passes and applies
\* none after it, otherwise the error of the last nested validator; Or with
\* no nested validator returns Ok.
C18_AndOrShortCircuit ==
    Applied =>
        LET v == arg.validator
            rs == NestedResults
            n == Len(v.nested)
            failing == {i \in 1..n : rs[i].err # Passed}
            passing == {i \in 1..n : rs[i].err = Passed}
        IN /\ v.kind = "and" =>
                IF failing = {}
                THEN ret.res = [err |-> Passed, visited |-> <<v>> \o VisitedBy(rs, n)]
                ELSE ret.res = [err |-> rs[Least(failing)].err,
                                visited |-> <<v>> \o VisitedBy(rs, Least(failing))]
           /\ v.kind = "or" =>
                IF passing # {}
                THEN ret.res = [err |-> Passed,
                                visited |-> <<v>> \o VisitedBy(rs, Least(passing))]
                ELSE IF n = 0 THEN ret.res = [err |-> Passed, visited |-> <<v>>]
                ELSE ret.res = [err |-> rs[n].err, visited |-> <<v>> \o VisitedBy(rs, n)]

C18_Witness ==
    /\ Applied /\ arg.validator.kind = "or" /\ Len(arg.validator.nested) = 2
    /\ ret.res.err # Passed
    /\ ret.res.err = NestedResults[2].err
    /\ ret.res.err # NestedResults[1].err
    /\ arg.validator.nested[1].kind = "and"

\* C19: Range{from, to} passes an Integer(v) exactly when from <= v <= to
\* as integers, negative v and v beyond usize included, and passes a Text
\* exactly when its length is within from..to.
C19_RangeIsMathematical ==
    (Applied /\ arg.validator.kind = "range") =>
        LET from == arg.validator.from
            to == arg.validator.to
        IN /\ arg.value.variant = "Integer" =>
                (ret.res.err = Passed <=> (from <= arg.value.i /\ arg.value.i <= to))
           /\ arg.value.variant = "Text" =>
                (ret.res.err = Passed <=> (from <= Len(arg.value.s) /\ Len(arg.value.s) <= to))

----------------------------------------------------------------------------
(* Claims on the argument store (SpecStore) *)

\* C20: get_arg_value (of RequestArgs and of RequestInput) returns the
\* path-derived value of a name that has one, whether or not the name is
\* also among the query/body-derived arguments; otherwise the
\* query/body-derived value if there is one; otherwise nothing.
C20_PathArgsTakePrecedence ==
    got.op \in {"RequestArgs::get_arg_value", "RequestInput::get_arg_value"} =>
        IF got.name \in DOMAIN store.path_args
        THEN got.found /\ got.value = store.path_args[got.name]
        ELSE IF got.name \in DOMAIN store.args
        THEN got.found /\ got.value = store.args[got.name]
        ELSE ~got.found

----------------------------------------------------------------------------
(* Claims on the error object *)

\* C21: for every kind of XepakError, the object to_error_object returns
\* has a "code" entry and a "message" entry. (SpecErrors)
C21_ErrorObjectHasCodeAndMessage ==
    ret.op = "to_error_object" => (ret.res.code # "" /\ ret.res.has_message)

\* The error object the caller gets for a result of an auth processor: the
\* message is the text and the id the text is formatted with.
AuthErrorObject(r) == to_error_object(Err(r.status, <<r.text, r.id>>))
NotAuthenticatedObject ==
    to_error_object(Err("Forbidden", <<"Not authenticated", <<>> >>))

\* C22: the error object of an authorization failure (the policy rejects an
\* authenticated caller) is the one of an authentication failure: same
\* status, code and message, whoever the caller is. (SpecPolicy)
C22_AuthFailuresLookTheSame ==
    /\ authn.status = "Forbidden" => AuthErrorObject(authn) = NotAuthenticatedObject
    /\ authz.status = "Forbidden" => AuthErrorObject(authz) = NotAuthenticatedObject

\* C23: when convert_with_schema fails on a value that is not Null for a
\* name the schema has, the error is an Input error, which to_error_object
\* maps to bad_request. (SpecSchema)
C23_ConversionFailureIsInputError ==
    (/\ Converted /\ arg.arg_name \in DOMAIN arg.schema
     /\ arg.value # Null /\ ~ret.res.ok) =>
        /\ ret.res.err.kind = "Input"
        /\ to_error_object(Err(ret.res.err.kind, ret.res.err.text)).code = "bad_request"

----------------------------------------------------------------------------
(* Claims on normalization of the policy tree (SpecAuth) *)

\* The tree with every Role leaf uppercased and nothing else changed.
RECURSIVE UppercaseRoles(_)
UppercaseRoles(c) ==
    CASE c.kind = "role" -> Role(to_uppercase(c.v))
      [] c.kind = "id" -> c
      [] c.kind = "and" -> And([i \in DOMAIN c.nested |-> UppercaseRoles(c.nested[i])])
      [] c.kind = "or" -> Or([i \in DOMAIN c.nested |-> UppercaseRoles(c.nested[i])])

\* C25: normalize changes only the text of the Role leaves: the tree the
\* processor holds after normalizing Or(checks) is Or(checks) with its Role
\* leaves uppercased, every And still And, every Or still Or, every Id
\* leaf as configured.
C25_NormalizeKeepsShape ==
    Len(checks) > 1 => check = UppercaseRoles(Or(checks))

----------------------------------------------------------------------------
(* Claims on query_to_pos_args (SpecPosArgs) *)

\* C26: query_to_pos_args, given the key args the lexer finds in the
\* query, returns the text that ParametrizedQueryRef::new(query)
\* .build_query(pos_arg) returns, the text after the last key arg included.
C26_QueryToPosArgsIsBuildQuery ==
    ret.op = "query_to_pos_args" =>
        ret.res.text = build_query(sql, ParametrizedQueryRef_new(sql), ret.res.token)

----------------------------------------------------------------------------
(* Claims on pagination (SpecPaging) *)

\* The value cannot be read as a row count: no integer, or a negative one,
\* or one above usize::MAX.
NoRowCount(name) ==
    \/ name \notin DOMAIN store.args
    \/ \A ub \in UBOutcomes :
          LET i == as_int(store.args[name], ub) IN
          ~i.ok \/ i.val.i < 0 \/ i.val.i > USIZE_MAX

\* C27: after parse_offset_limit the row limit is at most limit_max,
\* whatever the caller sent as the limit argument; a missing, negative or
\* unparsable limit gives limit_max, and such an offset gives 0.
C27_LimitNeverExceedsMax ==
    ret.op = "parse_offset_limit" =>
        /\ store.limit <= arg.limit_max
        /\ (arg.limit_arg # "" /\ NoRowCount(arg.limit_arg)) => store.limit = arg.limit_max
        /\ (arg.offset_arg # "" /\ NoRowCount(arg.offset_arg)) => store.offset = 0

----------------------------------------------------------------------------
(* Claims on argument insertion (SpecStore) *)

\* The map with the value put under the name.
Inserted(args, name, value) ==
    [k \in DOMAIN args \cup {name} |-> IF k = name THEN value ELSE args[k]]

\* What a call of set_arg_with_schema on the store may do when the map has
\* no other owner: insert the converted value and return Ok, or return the
\* conversion's error and leave the store as it is.
InsertsOrFails ==
    \E value \in StoredValues, from_request \in BOOLEAN, ub \in UBOutcomes :
        LET r == convert_with_schema(store.schema, got'.name, value,
                                     store.strict_schema /\ from_request, ub)
        IN IF r.ok
           THEN /\ got'.err = NoError
                /\ store' = [store EXCEPT !.args = Inserted(store.args, got'.name, r.val)]
           ELSE got'.err = r.err /\ store' = store

\* C29: a call of set_arg_with_schema either inserts the schema-converted
\* value under the name and returns Ok, or returns an error and leaves the
\* argument map unchanged; when the map is shared with a live clone it
\* returns an Unexpected error and changes nothing; the path arguments are
\* never modified.
C29_SetArgInsertsOrLeavesUnchanged ==
    [][got'.op = "set_arg_with_schema" =>
          /\ store'.path_args = store.path_args
          /\ (got'.err # NoError => store'.args = store.args)
          /\ IF got'.shared
             THEN got'.err.kind = "Unexpected" /\ store' = store
             ELSE InsertsOrFails]_vars

\* A conversion failed on an exclusively owned store that already holds an
\* inserted argument, next to a path argument.
C29_Witness ==
    /\ got.op = "set_arg_with_schema" /\ ~got.shared /\ got.err # NoError
    /\ DOMAIN store.args # {} /\ DOMAIN store.path_args # {}

----------------------------------------------------------------------------
(* Claims on build_pos_query over any list of ranges (SpecRanges) *)

IsPrefix(p, t) == Len(p) <= Len(t) /\ SubSeq(t, 1, Len(p)) = p

\* The text read back as what was emitted, in order: -1 for a token, and
\* for a character of the template its offset in the template (the
\* characters of the template are distinct and none is in a token).
RECURSIVE Emitted(_, _)
Emitted(text, token) ==
    IF text = <<>> THEN <<>>
    ELSE IF IsPrefix(token, text)
    THEN <<-1>> \o Emitted(SubSeq(text, Len(token) + 1, Len(text)), token)
    ELSE <<(CHOOSE i \in 1..Len(sql) : sql[i] = Head(text)) - 1>>
            \o Emitted(Tail(text), token)

TokensBefore(items, p) == Cardinality({q \in 1..(p - 1) : items[q] = -1})

\* C28: for any list of ranges inside the template, in any order and with
\* any overlaps, build_pos_query does not fail, emits exactly one token per
\* range, copies each character of the template at most once and in the
\* original order, and copies no character of a range it has already
\* replaced.
C28_BuildPosQueryAbsorbsAnyRanges ==
    ret.op = "build_pos_query" =>
        LET items == Emitted(ret.res.text, ret.res.token) IN
        /\ ~ret.res.failed
        /\ Cardinality({p \in DOMAIN items : items[p] = -1}) = Len(arg.ranges)
        /\ \A p, q \in DOMAIN items :
              (p < q /\ items[p] >= 0 /\ items[q] >= 0) => items[p] < items[q]
        /\ \A p \in DOMAIN items :
              items[p] >= 0 =>
                  \A k \in 1..TokensBefore(items, p) :
                      items[p] \notin arg.ranges[k].from..arg.ranges[k].to

\* Ranges out of order and overlapping: a later range starts before the
\* end of an earlier one, and text is left after them.
C28_Witness ==
    /\ ret.op = "build_pos_query" /\ Len(arg.ranges) = MaxRanges
    /\ \E k \in 2..Len(arg.ranges) : arg.ranges[k].from < arg.ranges[k - 1].from
    /\ \E k \in 2..Len(arg.ranges) :
          /\ arg.ranges[k].from <= arg.ranges[k - 1].to
          /\ arg.ranges[k].to > arg.ranges[k - 1].to
    /\ \E p \in DOMAIN ret.res.text : ret.res.text[p] = sql[Len(sql)]

----------------------------------------------------------------------------
(* Claims on the resource query (SpecStorage) *)

Queried == ret.op = "query"

\* The names of the key args of the template, in the order they occur.
NameList == [k \in DOMAIN LexAll(sql, 0) |-> LexAll(sql, 0)[k].key]

Reserved(name) == name \in {LIMIT_KEY, OFFSET_KEY}
InStore(name) == name \in DOMAIN store.path_args \cup DOMAIN store.args

\* The value expected at the place of a name: the computed limit or offset
\* for a reserved name, the store's argument otherwise (the path argument
\* first), in the form the driver receives it.
ExpectedBinding(name) ==
    CASE name = LIMIT_KEY -> Integer(as_i64(store.limit))
      [] name = OFFSET_KEY -> Integer(as_i64(store.offset))
      [] name \in DOMAIN store.path_args -> bind_sqlx(store.path_args[name])
      [] OTHER -> bind_sqlx(store.args[name])

\* C24: prepare_query binds one value per name of the name list, in list
\* order; a reserved name binds the computed row limit or offset even when
\* the store holds an argument of that name, any other name binds the
\* store's argument; when such a name is missing from the store the result
\* is an Input error and the query is not executed.
C24_OneBindingPerName ==
    Queried =>
        IF \E k \in DOMAIN NameList : ~Reserved(NameList[k]) /\ ~InStore(NameList[k])
        THEN ~ret.res.executed /\ ret.res.err.kind = "Input"
        ELSE /\ ret.res.executed
             /\ Len(ret.res.bound) = Len(NameList)
             /\ \A k \in DOMAIN NameList :
                   ret.res.bound[k] = ExpectedBinding(NameList[k])

\* A query was executed with the reserved limit name after another name,
\* for a request whose store holds an argument named as the reserved name,
\* with a value other than the computed limit.
C24_Witness ==
    /\ Queried /\ ret.res.executed /\ Len(NameList) = MaxPieces
    /\ NameList[1] = <<"q">> /\ NameList[2] = LIMIT_KEY
    /\ LIMIT_KEY \in DOMAIN store.args
    /\ store.args[LIMIT_KEY] # Integer(store.limit)

\* The characters of the text of the values the store holds.
RECURSIVE CharsOf(_)
CharsOf(text) == IF text = <<>> THEN {} ELSE {Head(text)} \cup CharsOf(Tail(text))
ValueChars(args) ==
    UNION {CharsOf(as_string(args.path_args[n]).val.s) : n \in DOMAIN args.path_args}
    \cup UNION {CharsOf(as_string(args.args[n]).val.s) : n \in DOMAIN args.args}

\* The requests that differ from this one only in the values of their
\* arguments.
Revalued(args) ==
    {[args EXCEPT !.path_args = path, !.args = other] :
        path \in [DOMAIN args.path_args -> {Text(<<"7">>), Text(<<"8">>)}],
        other \in [DOMAIN args.args -> {Integer(5), Text(<<"8">>)}]}

\* C30: for a template, the query text and the name list are the same for
\* every request, whatever the values of its arguments, and no character
\* of a value is in the text: the values are bound parameters only.
C30_TextIndependentOfValues ==
    Queried =>
        /\ \A other \in Revalued(store) :
              LET sent == Storage_query(other, sql) IN
              sent.text = ret.res.text /\ sent.names = ret.res.names
        /\ CharsOf(ret.res.text) \cap ValueChars(store) = {}
        /\ ret.res.executed =>
              \A k \in DOMAIN ret.res.names :
                  (~Reserved(ret.res.names[k])) =>
                      ret.res.bound[k] \in
                          {bind_sqlx(store.path_args[n]) : n \in DOMAIN store.path_args}
                          \cup {bind_sqlx(store.args[n]) : n \in DOMAIN store.args}

\* A query with two arguments was executed for a request that holds values
\* for them.
C30_Witness ==
    /\ Queried /\ ret.res.executed
    /\ \E k \in DOMAIN ret.res.names : ret.res.names[k] = <<"q">>
    /\ \E k \in DOMAIN ret.res.names : ret.res.names[k] = <<"i", "d">>
    /\ \E p \in DOMAIN ret.res.text : ret.res.text[p] = "?"

====
